---- MODULE Spec2Model ----
(***************************************************************************)
(* A model of homebridge-simpler-wled's device connectivity subsystem:     *)
(*   - WLEDDevice (src/unnamed/part_001, wledDevice.ts): one device's      *)
(*     session: push channel, reconnection, polling, the state mirror,     *)
(*     the mutators and the listener fan-out;                              *)
(*   - WLEDDiscoveryService (src/src/discoveryService.ts): the check       *)
(*     queue, its drain loop, and the merge of confirmed devices.          *)
(* The two objects share no state.  Spec is the session, DiscoverySpec the *)
(* discovery service; each leaves the other's variables untouched.         *)
(*                                                                         *)
(* Optional JSON fields (x === undefined) are sequences of length 0 or 1.  *)
(***************************************************************************)
EXTENDS Integers, Sequences, FiniteSets, TLC

VARIABLES
    \* ---- WLEDDevice ----
    useWebSockets,      \* constructor argument
    webSocket,          \* this.webSocket: "none" (undefined) or its readyState
    isConnected,        \* this.isConnected
    reconnectAttempts,  \* this.reconnectAttempts
    reconnectTimer,     \* this.reconnectTimer: "none", "armed", "stale" (handle kept, timer dead)
    reconnectDelay,     \* the delay in ms of the retry that is pending, 0 when none is
    pollTimer,          \* this.pollTimer: "none" or "armed"
    state,              \* this.state, the mirror
    segments,           \* this.segments
    activePresetId,     \* this.activePresetId
    stateListeners,     \* this.stateListeners
    inflight,           \* HTTP requests awaiting their response
    fellBack,           \* history: scheduleReconnect took its polling branch
    called,             \* the mutator call made by the last step, if any
    sent,               \* what the last step put on the wire
    notified,           \* the state listeners the last step invoked, in order
    settled,            \* the mutator promise the last step settled, if any
    completed,          \* the HTTP request whose response the last step received, if any
    presets,            \* this.presets, id -> name
    presetListeners,    \* this.presetListeners
    presetNotified,     \* the preset listeners the last step invoked, in order
    populated,          \* history: a getPresets has filled this.presets from the device
    \* ---- WLEDDiscoveryService ----
    checkQueue,         \* this.checkQueue
    isProcessingQueue,  \* this.isProcessingQueue
    loops,              \* the live activations of processCheckQueue
    discoveredDevices,  \* this.discoveredDevices, id -> device
    lastAdd,            \* the last addDiscoveredDevice call and what it did
    discoveryListeners, \* this.discoveryListeners
    published,          \* the deliveries to discovery listeners made by the last step
    isDiscovering,      \* this.isDiscovering
    discoveryTimer,     \* this.discoveryTimer: "none" or "armed"
    mdnsBrowser,        \* this.mdnsBrowser: "none", "browsing" or "stopped"
    udpSocket,          \* this.udpSocket: "none" or "open"
    mdnsWindows,        \* pending 60 s timeouts of discoverWithMDNS
    udpWindows,         \* pending 60 s timeouts of discoverWithUDP
    timers,             \* the intervals set by setInterval and not cleared
    browsers,           \* the browsers started and not stopped
    sockets,            \* the sockets created and not closed
    direct,             \* addDeviceByHost calls awaiting their response
    \* ---- ColorMath and the brightness units, called on their own ----
    arguments,          \* the function called on its own and its arguments
    returned            \* what it returned, once it has

sessionVars == <<useWebSockets, webSocket, isConnected, reconnectAttempts,
                 reconnectTimer, reconnectDelay, pollTimer, state, segments, activePresetId,
                 stateListeners, inflight, fellBack, called, sent, notified,
                 settled, completed, presets, presetListeners, presetNotified,
                 populated>>
scannerVars == <<isDiscovering, discoveryTimer, mdnsBrowser, udpSocket,
                 mdnsWindows, udpWindows, timers, browsers, sockets>>
discoveryVars == <<checkQueue, isProcessingQueue, loops, discoveredDevices,
                   lastAdd, discoveryListeners, published, scannerVars, direct>>
mathVars == <<arguments, returned>>
vars == <<sessionVars, discoveryVars, mathVars>>

None == <<>>
Some(x) == <<x>>

----------------------------------------------------------------------------
(* Bounds of the model. *)
MaxInFlight == 1      \* HTTP requests tracked at once; a further one never completes
MaxListeners == 1     \* registered state listeners (Spec)
MaxRegistered == 2    \* listeners of all kinds registered at once (RegistrySpec, NotifySpec, TeardownSpec)
MaxWindows == 2       \* pending 60 s timeouts of each scanner
MaxDirect == 1        \* addDeviceByHost calls awaiting their response
MaxExcess == 50       \* how far outside 0..100 a requested brightness lies (MathSpec)

(* Program constants. *)
maxReconnectAttempts == 10
reconnectInterval == 5000

----------------------------------------------------------------------------
(* ColorMath.  r / 255 etc. are kept as exact fractions: every quotient    *)
(* below has the common factor 255 cancelled.  The code computes them in   *)
(* doubles, which agrees with the exact quotient except where n / d lies   *)
(* exactly halfway between two integers: there the double may fall on      *)
(* either side, and "up" says on which.                                    *)

\* Math.round(n / d) for d > 0: the nearest integer, halves towards +infinity.
Round(n, d) == (2 * n + d) \div (2 * d)

\* Math.round of the double computed for n / d.
RoundTie(n, d, up) ==
    IF (2 * n) % (2 * d) = d /\ ~up THEN Round(n, d) - 1 ELSE Round(n, d)

Max3(a, b, c) == IF a >= b /\ a >= c THEN a ELSE IF b >= c THEN b ELSE c
Min3(a, b, c) == IF a <= b /\ a <= c THEN a ELSE IF b <= c THEN b ELSE c

rgbToHsvTies(r, g, b, up) ==
    LET max == Max3(r, g, b)
        min == Min3(r, g, b)
        delta == max - min
        h60 == IF delta = 0 THEN 0
               ELSE IF max = r THEN RoundTie(60 * (g - b), delta, up.h)
               ELSE IF max = g THEN RoundTie(60 * (b - r) + 120 * delta, delta, up.h)
               ELSE RoundTie(60 * (r - g) + 240 * delta, delta, up.h)
    IN [h |-> IF h60 < 0 THEN h60 + 360 ELSE h60,
        s |-> IF max = 0 THEN 0 ELSE RoundTie(100 * delta, max, up.s),
        v |-> Round(100 * max, 255)]

\* The conversion where no quotient is halfway.
HsvUp == [h |-> TRUE, s |-> TRUE]
rgbToHsv(r, g, b) == rgbToHsvTies(r, g, b, HsvUp)

\* Every result the doubles may give.
rgbToHsvResults(r, g, b) ==
    {rgbToHsvTies(r, g, b, up) : up \in [h : BOOLEAN, s : BOOLEAN]}

\* i = Math.floor(h * 6) with h / 360, f = h * 6 - i (h % 60 sixtieths),
\* p = v(1 - s), q = v(1 - f s), t = v(1 - (1 - f) s), then the switch on
\* i % 6 and Math.round(x * 255) of each channel.
hsvToRgbTies(h, s, v, up) ==
    LET i == h \div 60
        f == h % 60
        V == [n |-> 255 * v, d |-> 100]
        p == [n |-> 255 * v * (100 - s), d |-> 10000]
        q == [n |-> 255 * v * (6000 - f * s), d |-> 600000]
        t == [n |-> 255 * v * (6000 - (60 - f) * s), d |-> 600000]
        sector == i % 6
        rgb == IF sector = 0 THEN <<V, t, p>>
               ELSE IF sector = 1 THEN <<q, V, p>>
               ELSE IF sector = 2 THEN <<p, V, t>>
               ELSE IF sector = 3 THEN <<p, q, V>>
               ELSE IF sector = 4 THEN <<t, p, V>>
               ELSE <<V, p, q>>
    IN [r |-> RoundTie(rgb[1].n, rgb[1].d, up.r),
        g |-> RoundTie(rgb[2].n, rgb[2].d, up.g),
        b |-> RoundTie(rgb[3].n, rgb[3].d, up.b)]

RgbUp == [r |-> TRUE, g |-> TRUE, b |-> TRUE]
hsvToRgb(h, s, v) == hsvToRgbTies(h, s, v, RgbUp)

hsvToRgbResults(h, s, v) ==
    {hsvToRgbTies(h, s, v, up) : up \in [r : BOOLEAN, g : BOOLEAN, b : BOOLEAN]}

----------------------------------------------------------------------------
(* Values. *)

Black == [r |-> 0, g |-> 0, b |-> 0]

\* The field initialiser of this.state.  colorMode ('rgb') and
\* colorTemperature (140) never change and are left out.
InitialState ==
    [on |-> FALSE, brightness |-> 0, color |-> Black, hue |-> 0,
     saturation |-> 0, effect |-> 0, presetId |-> 0, segmentState |-> None]

\* The /json/state bodies (and "state" members of push messages) the device
\* answers with.  seg, bri, ps and a segment's col, bri may be absent.
SegRed   == [col |-> Some(<< <<255, 0, 0>> >>), bri |-> Some(255), on |-> TRUE, fx |-> 2]
SegBare  == [col |-> None, bri |-> None, on |-> TRUE, fx |-> 0]
SegBlue  == [col |-> Some(<< <<0, 0, 255>> >>), bri |-> Some(51), on |-> FALSE, fx |-> 0]
\* A null where a segment object belongs.
SegNull  == [null |-> TRUE]
IsNull(segment) == "null" \in DOMAIN segment
StateData ==
    { [on |-> TRUE,  bri |-> Some(128), ps |-> None,    seg |-> Some(<<SegRed, SegBare>>)],
      [on |-> FALSE, bri |-> None,      ps |-> Some(2), seg |-> None] }

\* Push messages after JSON.parse: unparseable text, an object with a
\* "state" member, one with only "seg", or some other object.
Messages ==
    {[kind |-> "garbage", state |-> None, seg |-> None],
     [kind |-> "other", state |-> None, seg |-> None]}
    \cup {[kind |-> "state", state |-> Some(d), seg |-> None] : d \in StateData}
    \cup {[kind |-> "seg", state |-> None, seg |-> Some(<<SegRed, SegBare>>)]}

\* More of what the channel may deliver: shorter and empty segment lists,
\* and lists with a null element.
InboundData ==
    StateData
    \cup { [on |-> TRUE, bri |-> Some(51), ps |-> Some(3), seg |-> Some(<<SegBlue>>)],
           [on |-> TRUE, bri |-> Some(51), ps |-> None,    seg |-> Some(<<>>)],
           [on |-> TRUE, bri |-> Some(255), ps |-> Some(3), seg |-> Some(<<SegBlue, SegNull>>)] }
InboundMessages ==
    {[kind |-> "garbage", state |-> None, seg |-> None]}
    \cup {[kind |-> "state", state |-> Some(d), seg |-> None] : d \in InboundData}
    \cup {[kind |-> "seg", state |-> None, seg |-> Some(l)] :
             l \in {<<SegRed, SegBare>>, <<SegBlue>>, <<>>, <<SegNull>>}}

ListenerIds == {"L1"}

Registered == Len(stateListeners) + Len(presetListeners) + Len(discoveryListeners)

\* A listener is a callback of the accessory layer or the UI server; what
\* the notifier sees of it is whether the call returns or throws.
Throws(listener) == listener = "Bad"

\* for (const listener of listeners) { try { listener(x) } catch { log } },
\* from position i on: the listeners called, those whose exception was
\* logged, and whether an exception left the loop.
RECURSIVE InvokeUnguarded(_, _)
\* Mutant of Invoke: the call is not wrapped in try/catch.
InvokeUnguarded(listeners, i) ==
    IF i > Len(listeners)
    THEN [invoked |-> <<>>, logged |-> <<>>, escaped |-> FALSE]
    ELSE IF Throws(listeners[i])
    THEN [invoked |-> <<listeners[i]>>, logged |-> <<>>, escaped |-> TRUE]
    ELSE LET rest == InvokeUnguarded(listeners, i + 1)
         IN [rest EXCEPT !.invoked = <<listeners[i]>> \o rest.invoked]

RECURSIVE Invoke(_, _)
Invoke(listeners, i) ==
    IF i > Len(listeners)
    THEN [invoked |-> <<>>, logged |-> <<>>, escaped |-> FALSE]
    ELSE LET rest == Invoke(listeners, i + 1)
         IN [invoked |-> <<listeners[i]>> \o rest.invoked,
             logged |-> (IF Throws(listeners[i]) THEN <<listeners[i]>> ELSE <<>>)
                        \o rest.logged,
             escaped |-> rest.escaped]

\* Mutator calls: the operation and its argument (the fields the operation
\* does not take keep a filler value).
Call(op, on, brightness, color) ==
    [op |-> op, on |-> on, brightness |-> brightness, color |-> color]
NoCall == Call("none", FALSE, 0, Black)
\* A segment mutator's call, and setHSV(hue, saturation, value).
SegmentCall(op, segmentIndex, brightness, color) ==
    [op |-> op, on |-> FALSE, brightness |-> brightness, color |-> color,
     segmentIndex |-> segmentIndex]
SegmentPowerCall(segmentIndex, on) ==
    [op |-> "setSegmentPower", on |-> on, brightness |-> 0, color |-> Black,
     segmentIndex |-> segmentIndex]
SegmentHsvCall(segmentIndex, h, sat, v) ==
    [op |-> "setSegmentHSV", on |-> FALSE, brightness |-> 0, color |-> Black,
     segmentIndex |-> segmentIndex, hsv |-> [h |-> h, s |-> sat, v |-> v]]
SegmentEffectCall(segmentIndex, effectIndex) ==
    [op |-> "setSegmentEffect", on |-> FALSE, brightness |-> 0, color |-> Black,
     segmentIndex |-> segmentIndex, effect |-> effectIndex]
PresetCall(presetId) ==
    [op |-> "activatePreset", on |-> FALSE, brightness |-> 0, color |-> Black,
     presetId |-> presetId]
HsvCall(h, sat, v) ==
    [op |-> "setHSV", on |-> FALSE, brightness |-> 0, color |-> Black,
     hsv |-> [h |-> h, s |-> sat, v |-> v]]
PowerArgs == {TRUE}
BrightnessArgs == {75}
ColorArgs == {[r |-> 255, g |-> 128, b |-> 64]}
Calls ==
    {Call("setPower", v, 0, Black) : v \in PowerArgs}
    \cup {Call("setBrightness", FALSE, n, Black) : n \in BrightnessArgs}
    \cup {Call("setColor", FALSE, 0, c) : c \in ColorArgs}

----------------------------------------------------------------------------
(* WLEDDevice: the state mirror. *)

\* Math.round((bri / 255) * 100) and Math.max(0, Math.min(255,
\* Math.round((brightness / 100) * 255))).
toPublicTruncates(bri) == (bri * 100) \div 255
toPublic(bri) == Round(bri * 100, 255)
toNativeUnclamped(brightness) == Round(brightness * 255, 100)
toNative(brightness) ==
    LET n == Round(brightness * 255, 100)
    IN IF n < 0 THEN 0 ELSE IF n > 255 THEN 255 ELSE n

\* data.seg?.[0]
FirstSeg(data) ==
    IF data.seg # None /\ Len(data.seg[1]) > 0 /\ ~IsNull(data.seg[1][1])
    THEN Some(data.seg[1][1])
    ELSE None

\* data.seg?.[0]?.col?.[0], each channel "|| 0"
FirstColor(data) ==
    LET sg == FirstSeg(data)
    IN IF sg # None /\ sg[1].col # None /\ Len(sg[1].col[1]) > 0
       THEN LET c == sg[1].col[1][1] IN [r |-> c[1], g |-> c[2], b |-> c[3]]
       ELSE Black

\* One entry of this.segments (name, start, stop, length and selected are
\* copied from the device and read by no operation modelled here).
SegmentOf(segment, index) ==
    [id |-> index,
     colors |-> IF segment.col # None THEN segment.col[1] ELSE <<>>,
     brightness |-> IF segment.bri # None THEN toPublic(segment.bri[1]) ELSE 0,
     on |-> segment.on]

\* One entry of this.state.segmentState.
SegmentStateOf(segment) ==
    LET mainColor == IF Len(segment.colors) > 0 THEN segment.colors[1] ELSE <<0, 0, 0>>
        hsv == rgbToHsv(mainColor[1], mainColor[2], mainColor[3])
    IN [on |-> segment.on, brightness |-> segment.brightness,
        color |-> [r |-> mainColor[1], g |-> mainColor[2], b |-> mainColor[3]],
        hue |-> hsv.h, saturation |-> hsv.s, effect |-> 0, presetId |-> 0,
        segmentState |-> None]

\* data.seg.map(segment => ... segment.n ...) throws on a null element,
\* before this.segments is assigned.
MapThrows(seg) == seg # None /\ \E i \in 1..Len(seg[1]) : IsNull(seg[1][i])

\* updateSegmentsFromData(data) on mirror st and segment list segs:
\* the new <<state, segments>>.
updateSegmentsFromData(st, segs, seg) ==
    IF seg # None
    THEN LET list == [i \in 1..Len(seg[1]) |-> SegmentOf(seg[1][i], i - 1)]
         IN IF Len(list) > 0
            THEN <<[st EXCEPT !.segmentState =
                       Some([i \in 1..Len(list) |-> SegmentStateOf(list[i])])],
                   list>>
            ELSE <<st, list>>
    ELSE <<st, segs>>

\* The object updateStateFromData assigns to this.state, hue and
\* saturation filled in.
ParsedState(data) ==
    LET color == FirstColor(data)
        hsv == rgbToHsv(color.r, color.g, color.b)
        sg == FirstSeg(data)
    IN [on |-> data.on,
        brightness |-> IF data.bri # None THEN toPublic(data.bri[1]) ELSE 0,
        color |-> color, hue |-> hsv.h, saturation |-> hsv.s,
        effect |-> IF sg # None THEN sg[1].fx ELSE 0,
        presetId |-> IF data.ps # None /\ data.ps[1] # 0 THEN data.ps[1] ELSE -1,
        segmentState |-> None]

\* notifyListeners(): the state listeners called, in order, and whether an
\* exception got out of the loop.
notifyListeners == Invoke(stateListeners, 1)

\* Mutant of updateStateFromData: data.ps is not copied to activePresetId.
updateStateFromDataKeepsPreset(data) ==
    LET upd == updateSegmentsFromData(ParsedState(data), segments, data.seg)
    IN /\ state' = upd[1]
       /\ segments' = upd[2]
       /\ activePresetId' = activePresetId
       /\ notified' = notifyListeners.invoked

\* updateStateFromData(data): this.state and activePresetId are assigned
\* before updateSegmentsFromData runs; when that throws, the catch logs and
\* neither the segment list is replaced nor the listeners are called.
updateStateFromData(data) ==
    IF MapThrows(data.seg)
    THEN /\ state' = ParsedState(data)
         /\ segments' = segments
         /\ activePresetId' = IF data.ps # None THEN data.ps[1] ELSE activePresetId
         /\ notified' = <<>>
    ELSE LET upd == updateSegmentsFromData(ParsedState(data), segments, data.seg)
         IN /\ state' = upd[1]
            /\ segments' = upd[2]
            /\ activePresetId' = IF data.ps # None THEN data.ps[1] ELSE activePresetId
            /\ notified' = notifyListeners.invoked

----------------------------------------------------------------------------
(* WLEDDevice: HTTP requests. *)

\* pushFailed: the POST follows a send() that threw (it is also issued when
\* there is no OPEN socket to send on).
Get == [kind |-> "get", call |-> NoCall, pushFailed |-> FALSE]
\* awaited by the mutator
Post(c) == [kind |-> "post", call |-> c, pushFailed |-> FALSE]
\* sendWebSocketUpdate's, not awaited
Fallback(c, pushFailed) == [kind |-> "fallback", call |-> c, pushFailed |-> pushFailed]

\* axios sets no timeout: a request may never complete.  At most MaxInFlight
\* requests are followed; one issued beyond that is one that never completes.
Issue(req) ==
    IF Cardinality(inflight \cup {req}) <= MaxInFlight THEN inflight \cup {req} ELSE inflight

\* setSegmentBrightness: the payload it builds.
SegmentBrightnessPatch(segmentIndex, brightness) ==
    [seg |-> [id |-> segmentIndex, bri |-> toNative(brightness)]]

\* The triple a colour mutator sends and mirrors: setHSV hands
\* hsvToRgb(hue, saturation, value) to setColor, setSegmentHSV to
\* setSegmentColor.
ColorOf(c) ==
    IF c.op \in {"setHSV", "setSegmentHSV"}
    THEN hsvToRgb(c.hsv.h, c.hsv.s, c.hsv.v)
    ELSE c.color

\* The JSON patch of a call and what goes on the wire.
Patch(c) ==
    [on |-> IF c.op = "setPower" THEN Some(c.on) ELSE None,
     bri |-> IF c.op = "setBrightness" THEN Some(toNative(c.brightness)) ELSE None,
     seg |-> IF c.op \in {"setColor", "setHSV"}
             THEN Some([id |-> 0,
                        col |-> << <<ColorOf(c).r, ColorOf(c).g, ColorOf(c).b>> >>])
             ELSE IF c.op \in {"setSegmentColor", "setSegmentHSV"}
             THEN Some([id |-> c.segmentIndex,
                        col |-> << <<ColorOf(c).r, ColorOf(c).g, ColorOf(c).b>> >>])
             ELSE IF c.op = "setSegmentPower"
             THEN Some([id |-> c.segmentIndex, on |-> c.on])
             ELSE IF c.op = "setSegmentEffect"
             THEN Some([id |-> c.segmentIndex, fx |-> c.effect])
             ELSE IF c.op = "setSegmentBrightness"
             THEN Some(SegmentBrightnessPatch(c.segmentIndex, c.brightness).seg)
             ELSE None,
     ps |-> IF c.op = "activatePreset" THEN Some(c.presetId) ELSE None]
NoPatch == [on |-> None, bri |-> None, seg |-> None, ps |-> None]
WsFrame(c, ok) == [via |-> "ws", method |-> "send", patch |-> Patch(c), ok |-> ok]
HttpPost(c) == [via |-> "http", method |-> "POST", patch |-> Patch(c), ok |-> TRUE]
HttpGet == [via |-> "http", method |-> "GET", patch |-> NoPatch, ok |-> TRUE]

\* this.state.segmentState && this.state.segmentState[segmentIndex]
HasSegmentState(st, segmentIndex) ==
    /\ st.segmentState # None
    /\ segmentIndex >= 0
    /\ segmentIndex < Len(st.segmentState[1])

\* Mutant of ApplyCall: the colour mutators store the triple and leave hue
\* and saturation as they were.
ApplyCallKeepsHue(st, c) ==
    IF c.op = "setPower" THEN [st EXCEPT !.on = c.on]
    ELSE IF c.op = "setBrightness" THEN [st EXCEPT !.brightness = c.brightness]
    ELSE IF c.op = "activatePreset" THEN [st EXCEPT !.presetId = c.presetId]
    ELSE IF c.op = "setSegmentBrightness"
    THEN IF HasSegmentState(st, c.segmentIndex)
         THEN [st EXCEPT !.segmentState[1][c.segmentIndex + 1].brightness = c.brightness]
         ELSE st
    ELSE IF c.op = "setSegmentPower"
    THEN IF HasSegmentState(st, c.segmentIndex)
         THEN [st EXCEPT !.segmentState[1][c.segmentIndex + 1].on = c.on]
         ELSE st
    ELSE IF c.op = "setSegmentEffect" THEN st
    ELSE IF c.op \in {"setSegmentColor", "setSegmentHSV"}
    THEN IF HasSegmentState(st, c.segmentIndex)
         THEN [st EXCEPT !.segmentState[1][c.segmentIndex + 1].color = ColorOf(c)]
         ELSE st
    ELSE [st EXCEPT !.color = ColorOf(c)]

\* The mirror after the local update of call c.
ApplyCall(st, c) ==
    IF c.op = "setPower" THEN [st EXCEPT !.on = c.on]
    ELSE IF c.op = "setBrightness" THEN [st EXCEPT !.brightness = c.brightness]
    ELSE IF c.op = "activatePreset" THEN [st EXCEPT !.presetId = c.presetId]
    ELSE IF c.op = "setSegmentBrightness"
    THEN IF HasSegmentState(st, c.segmentIndex)
         THEN [st EXCEPT !.segmentState[1][c.segmentIndex + 1].brightness = c.brightness]
         ELSE st
    ELSE IF c.op = "setSegmentPower"
    THEN IF HasSegmentState(st, c.segmentIndex)
         THEN [st EXCEPT !.segmentState[1][c.segmentIndex + 1].on = c.on]
         ELSE st
    ELSE IF c.op = "setSegmentEffect" THEN st
    ELSE IF c.op \in {"setSegmentColor", "setSegmentHSV"}
    THEN IF HasSegmentState(st, c.segmentIndex)
         THEN LET hsv == rgbToHsv(ColorOf(c).r, ColorOf(c).g, ColorOf(c).b)
              IN [st EXCEPT !.segmentState[1][c.segmentIndex + 1].color = ColorOf(c),
                            !.segmentState[1][c.segmentIndex + 1].hue = hsv.h,
                            !.segmentState[1][c.segmentIndex + 1].saturation = hsv.s]
         ELSE st
    ELSE LET color == ColorOf(c)
             hsv == rgbToHsv(color.r, color.g, color.b)
         IN [st EXCEPT !.color = color, !.hue = hsv.h, !.saturation = hsv.s]

Settled(c, outcome) == [call |-> c, outcome |-> outcome]

----------------------------------------------------------------------------
(* WLEDDevice: connection life cycle. *)

connVars == <<webSocket, isConnected, reconnectAttempts, reconnectTimer,
              reconnectDelay, pollTimer, fellBack>>
mirrorVars == <<state, segments, activePresetId>>
presetVars == <<presets, presetListeners, populated>>
NoMutatorEvent ==
    called' = None /\ settled' = None /\ completed' = None /\ presetNotified' = <<>>

\* this.reconnectInterval * Math.min(this.reconnectAttempts, 5), and the
\* same without the cap.
RetryDelayUncapped(attempts) == reconnectInterval * attempts
RetryDelay(attempts) == reconnectInterval * (IF attempts < 5 THEN attempts ELSE 5)

\* startPolling(): (re)arm the interval and fetch once at once.
startPolling ==
    /\ pollTimer' = "armed"
    /\ inflight' = Issue(Get)
    /\ sent' = <<HttpGet>>

\* Mutant of scheduleReconnect: at the ceiling it gives up without polling.
scheduleReconnectGivesUp ==
    IF reconnectAttempts < maxReconnectAttempts
    THEN /\ reconnectAttempts' = reconnectAttempts + 1
         /\ reconnectTimer' = "armed"
         /\ reconnectDelay' = RetryDelay(reconnectAttempts')
         /\ UNCHANGED <<pollTimer, inflight, fellBack>>
         /\ sent' = <<>>
    ELSE /\ sent' = <<>>
         /\ reconnectTimer' = IF reconnectTimer = "armed" THEN "stale" ELSE reconnectTimer
         /\ reconnectDelay' = 0
         /\ UNCHANGED <<reconnectAttempts, pollTimer, inflight, fellBack>>

\* Mutant of scheduleReconnect: at the ceiling it starts polling and still
\* arms another retry.
scheduleReconnectRetriesOn ==
    IF reconnectAttempts < maxReconnectAttempts
    THEN /\ reconnectAttempts' = reconnectAttempts + 1
         /\ reconnectTimer' = "armed"
         /\ reconnectDelay' = RetryDelay(reconnectAttempts')
         /\ UNCHANGED <<pollTimer, inflight, fellBack>>
         /\ sent' = <<>>
    ELSE /\ startPolling
         /\ fellBack' = TRUE
         /\ reconnectTimer' = "armed"
         /\ reconnectDelay' = RetryDelay(reconnectAttempts)
         /\ UNCHANGED reconnectAttempts

\* scheduleReconnect(): clearTimeout, then either arm the next retry or,
\* at the ceiling, fall back to polling.
scheduleReconnect ==
    IF reconnectAttempts < maxReconnectAttempts
    THEN /\ reconnectAttempts' = reconnectAttempts + 1
         /\ reconnectTimer' = "armed"
         /\ reconnectDelay' = RetryDelay(reconnectAttempts')
         /\ UNCHANGED <<pollTimer, inflight, fellBack>>
         /\ sent' = <<>>
    ELSE /\ startPolling
         /\ fellBack' = TRUE
         /\ reconnectTimer' = IF reconnectTimer = "armed" THEN "stale" ELSE reconnectTimer
         /\ reconnectDelay' = 0
         /\ UNCHANGED reconnectAttempts

\* The reconnect timer fires: connectWebSocket().  cleanupWebSocket() drops
\* the old socket; new WebSocket(url) either throws (scheduleReconnect from
\* the catch block) or yields a socket in CONNECTING with the four handlers.
ReconnectTimerFires ==
    /\ reconnectTimer = "armed"
    /\ \E throws \in BOOLEAN :
         IF throws
         THEN /\ webSocket' = "none"
              /\ scheduleReconnect
         ELSE /\ webSocket' = "connecting"
              /\ reconnectTimer' = "stale"
              /\ reconnectDelay' = 0
              /\ sent' = <<>>
              /\ UNCHANGED <<reconnectAttempts, pollTimer, inflight, fellBack>>
    /\ notified' = <<>>
    /\ NoMutatorEvent
    /\ UNCHANGED <<mathVars, discoveryVars, presetVars, useWebSockets, isConnected, mirrorVars, stateListeners>>

\* 'open'
WsOpen ==
    /\ webSocket = "connecting"
    /\ webSocket' = "open"
    /\ isConnected' = TRUE
    /\ reconnectAttempts' = 0
    /\ sent' = <<>> /\ notified' = <<>>
    /\ NoMutatorEvent
    /\ UNCHANGED <<mathVars, discoveryVars, presetVars, useWebSockets, reconnectTimer, reconnectDelay, pollTimer, fellBack, mirrorVars,
                   stateListeners, inflight>>

\* 'error': logged only.  The socket is no longer OPEN and its 'close'
\* event follows.
WsError ==
    /\ webSocket \in {"connecting", "open"}
    /\ webSocket' = "closing"
    /\ sent' = <<>> /\ notified' = <<>>
    /\ NoMutatorEvent
    /\ UNCHANGED <<mathVars, discoveryVars, presetVars, useWebSockets, isConnected, reconnectAttempts, reconnectTimer, reconnectDelay,
                   pollTimer, fellBack, mirrorVars, stateListeners, inflight>>

\* 'close'
WsClose ==
    /\ webSocket \in {"connecting", "open", "closing"}
    /\ webSocket' = "closed"
    /\ isConnected' = FALSE
    /\ scheduleReconnect
    /\ notified' = <<>>
    /\ NoMutatorEvent
    /\ UNCHANGED <<mathVars, discoveryVars, presetVars, useWebSockets, mirrorVars, stateListeners>>

\* 'message': handleWebSocketMessage(data)
WsMessage(m) ==
    /\ webSocket = "open"
    /\ IF m.kind = "state"
       THEN updateStateFromData(m.state[1])
       ELSE IF m.kind = "seg" /\ MapThrows(m.seg)
       THEN /\ UNCHANGED mirrorVars
            /\ notified' = <<>>
       ELSE IF m.kind = "seg"
       THEN LET upd == updateSegmentsFromData(state, segments, m.seg)
            IN /\ state' = upd[1]
               /\ segments' = upd[2]
               /\ UNCHANGED activePresetId
               /\ notified' = <<>>
       ELSE /\ UNCHANGED mirrorVars
            /\ notified' = <<>>
    /\ sent' = <<>>
    /\ NoMutatorEvent
    /\ UNCHANGED <<mathVars, discoveryVars, presetVars, useWebSockets, connVars, stateListeners, inflight>>

\* The poll interval elapses: updateStateViaHTTP().
PollTick ==
    /\ pollTimer = "armed"
    /\ inflight' = Issue(Get)
    /\ sent' = <<HttpGet>>
    /\ notified' = <<>>
    /\ NoMutatorEvent
    /\ UNCHANGED <<mathVars, discoveryVars, presetVars, useWebSockets, connVars, mirrorVars, stateListeners>>

\* updateStateViaHTTP(): the response arrives, or the request fails (the
\* error is rethrown to a caller that logs it).
GetCompletes ==
    /\ Get \in inflight
    /\ inflight' = inflight \ {Get}
    /\ \E ok \in BOOLEAN :
         /\ completed' = Some([req |-> Get, ok |-> ok])
         /\ IF ok
            THEN \E data \in StateData : updateStateFromData(data)
            ELSE UNCHANGED mirrorVars /\ notified' = <<>>
    /\ sent' = <<>>
    /\ called' = None /\ settled' = None
    /\ presetNotified' = <<>>
    /\ UNCHANGED <<mathVars, discoveryVars, presetVars, useWebSockets, connVars, stateListeners>>

\* stopPolling()
stopPolling ==
    /\ pollTimer' = "none"
    /\ sent' = <<>> /\ notified' = <<>>
    /\ NoMutatorEvent
    /\ UNCHANGED <<mathVars, discoveryVars, presetVars, useWebSockets, webSocket, isConnected, reconnectAttempts,
                   reconnectTimer, reconnectDelay, fellBack, mirrorVars, stateListeners, inflight>>

\* Mutant of cleanup: the preset listeners are left registered.
cleanupKeepsPresetListeners ==
    /\ pollTimer' = "none"
    /\ reconnectTimer' = "none"
    /\ reconnectDelay' = 0
    /\ webSocket' = "none"
    /\ stateListeners' = <<>>
    /\ sent' = <<>> /\ notified' = <<>>
    /\ NoMutatorEvent
    /\ UNCHANGED <<mathVars, discoveryVars, presetVars, useWebSockets, isConnected, reconnectAttempts,
                   fellBack, mirrorVars, inflight>>

\* Mutant of cleanup: the reconnect timer is left running.
cleanupKeepsReconnectTimer ==
    /\ pollTimer' = "none"
    /\ webSocket' = "none"
    /\ stateListeners' = <<>>
    /\ presetListeners' = <<>>
    /\ sent' = <<>> /\ notified' = <<>>
    /\ NoMutatorEvent
    /\ UNCHANGED <<mathVars, discoveryVars, presets, populated, useWebSockets, isConnected, reconnectAttempts,
                   reconnectTimer, reconnectDelay, fellBack, mirrorVars, inflight>>

\* cleanup(): stopPolling, clear the reconnect timer, cleanupWebSocket
\* (listeners removed, socket closed and forgotten), clear the listeners.
cleanup ==
    /\ pollTimer' = "none"
    /\ reconnectTimer' = "none"
    /\ reconnectDelay' = 0
    /\ webSocket' = "none"
    /\ stateListeners' = <<>>
    /\ presetListeners' = <<>>
    /\ sent' = <<>> /\ notified' = <<>>
    /\ NoMutatorEvent
    /\ UNCHANGED <<mathVars, discoveryVars, presets, populated, useWebSockets, isConnected, reconnectAttempts,
                   fellBack, mirrorVars, inflight>>

----------------------------------------------------------------------------
(* WLEDDevice: mutators (setPower, setBrightness, setColor share one shape). *)

\* sendWebSocketUpdate(payload): send on an OPEN socket; when there is none
\* or send throws, POST instead, without awaiting it, its failure logged.
\* The frames put on the wire.
sendWebSocketUpdate(c, sendThrows) ==
    IF webSocket = "open"
    THEN IF sendThrows THEN <<WsFrame(c, FALSE), HttpPost(c)>> ELSE <<WsFrame(c, TRUE)>>
    ELSE <<HttpPost(c)>>

\* The mutator is called.  Connected: sendWebSocketUpdate, the local update
\* and the notification all happen before the call returns.  Otherwise the
\* POST is awaited.
Mutator(c) ==
    /\ called' = Some(c)
    /\ completed' = None
    /\ IF useWebSockets /\ isConnected
       THEN \E sendThrows \in BOOLEAN :
              /\ sendThrows => webSocket = "open"
              /\ sent' = sendWebSocketUpdate(c, sendThrows)
              /\ inflight' = IF HttpPost(c) \in {sent'[i] : i \in 1..Len(sent')}
                             THEN Issue(Fallback(c, sendThrows)) ELSE inflight
              /\ state' = ApplyCall(state, c)
              /\ notified' = notifyListeners.invoked
              /\ settled' = Some(Settled(c, IF notifyListeners.escaped
                                            THEN "rejected" ELSE "resolved"))
       ELSE /\ sent' = <<HttpPost(c)>>
            /\ inflight' = Issue(Post(c))
            /\ notified' = <<>>
            /\ settled' = None
            /\ UNCHANGED state
    /\ presetNotified' = <<>>
    /\ UNCHANGED <<mathVars, discoveryVars, presetVars, useWebSockets, connVars, segments, activePresetId, stateListeners>>

\* The awaited POST of a mutator succeeds: local update, notification, the
\* call resolves.
PostSucceeds(req) ==
    /\ req \in inflight /\ req.kind = "post"
    /\ inflight' = inflight \ {req}
    /\ completed' = Some([req |-> req, ok |-> TRUE])
    /\ state' = ApplyCall(state, req.call)
    /\ notified' = notifyListeners.invoked
    /\ settled' = Some(Settled(req.call, IF notifyListeners.escaped
                                         THEN "rejected" ELSE "resolved"))
    /\ called' = None /\ sent' = <<>>
    /\ presetNotified' = <<>>
    /\ UNCHANGED <<mathVars, discoveryVars, presetVars, useWebSockets, connVars, segments, activePresetId, stateListeners>>

\* Mutant of PostFails: the local update is made although the POST failed.
PostFailsOptimistic(req) ==
    /\ req \in inflight /\ req.kind = "post"
    /\ inflight' = inflight \ {req}
    /\ completed' = Some([req |-> req, ok |-> FALSE])
    /\ settled' = Some(Settled(req.call, "rejected"))
    /\ state' = ApplyCall(state, req.call)
    /\ notified' = notifyListeners.invoked
    /\ called' = None /\ sent' = <<>>
    /\ presetNotified' = <<>>
    /\ UNCHANGED <<mathVars, discoveryVars, presetVars, useWebSockets, connVars, segments, activePresetId,
                   stateListeners>>

\* The awaited POST fails: the catch block logs and rethrows.
PostFails(req) ==
    /\ req \in inflight /\ req.kind = "post"
    /\ inflight' = inflight \ {req}
    /\ completed' = Some([req |-> req, ok |-> FALSE])
    /\ settled' = Some(Settled(req.call, "rejected"))
    /\ notified' = <<>>
    /\ called' = None /\ sent' = <<>>
    /\ presetNotified' = <<>>
    /\ UNCHANGED <<mathVars, discoveryVars, presetVars, useWebSockets, connVars, mirrorVars, stateListeners>>

\* The POST issued by sendWebSocketUpdate completes; .catch() logs a failure.
FallbackCompletes(req) ==
    /\ req \in inflight /\ req.kind = "fallback"
    /\ inflight' = inflight \ {req}
    /\ \E ok \in BOOLEAN : completed' = Some([req |-> req, ok |-> ok])
    /\ settled' = None
    /\ notified' = <<>>
    /\ called' = None /\ sent' = <<>>
    /\ presetNotified' = <<>>
    /\ UNCHANGED <<mathVars, discoveryVars, presetVars, useWebSockets, connVars, mirrorVars, stateListeners>>

\* addStateListener(listener)
addStateListener(l) ==
    /\ stateListeners' = Append(stateListeners, l)
    /\ sent' = <<>> /\ notified' = <<>>
    /\ NoMutatorEvent
    /\ UNCHANGED <<mathVars, discoveryVars, presetVars, useWebSockets, connVars, mirrorVars, inflight>>

\* removeStateListener(listener): splice out the first occurrence.
removeStateListener(l) ==
    /\ \E i \in 1..Len(stateListeners) :
         /\ stateListeners[i] = l
         /\ \A j \in 1..(i - 1) : stateListeners[j] # l
         /\ stateListeners' = SubSeq(stateListeners, 1, i - 1)
                              \o SubSeq(stateListeners, i + 1, Len(stateListeners))
    /\ sent' = <<>> /\ notified' = <<>>
    /\ NoMutatorEvent
    /\ UNCHANGED <<mathVars, discoveryVars, presetVars, useWebSockets, connVars, mirrorVars, inflight>>

----------------------------------------------------------------------------
(* WLEDDevice: presets. *)

PresetListenerIds == {"P1", "Bad"}

\* Bodies of GET /json/presets: the entries in order, each an object or
\* not, named by "n", by "name" or not at all.
PresetEntry(id, object, n, name) == [id |-> id, object |-> object, n |-> n, name |-> name]
\* A key is the sequence of its characters.
KeyName == <<"_", "n", "a", "m", "e">>
KeyType == <<"_", "t", "y", "p", "e">>
RawPresets ==
    { <<>>,
      << PresetEntry(KeyName, FALSE, None, None),
         PresetEntry(<<"1">>, TRUE, Some(<<"Sunset">>), None),
         PresetEntry(<<"2">>, TRUE, None, None),
         PresetEntry(<<"3">>, FALSE, None, None),
         PresetEntry(<<"f", "a", "v">>, TRUE, None, Some(<<"Party">>)) >> }

\* The loop of getPresets over Object.entries(rawPresets), _name and _type
\* deleted first.
FormatPresets(raw) ==
    LET kept == {i \in 1..Len(raw) : raw[i].id \notin {KeyName, KeyType} /\ raw[i].object}
        At(id) == raw[CHOOSE i \in kept : raw[i].id = id]
    IN [id \in {raw[i].id : i \in kept} |->
           IF At(id).n # None THEN At(id).n[1]
           ELSE IF At(id).name # None THEN At(id).name[1]
           ELSE <<"Preset ", id>>]

GetPresets == Call("getPresets", FALSE, 0, Black)
PresetsRequest == [kind |-> "presets", call |-> GetPresets, pushFailed |-> FALSE]
HttpGetPresets == [via |-> "http", method |-> "GET presets", patch |-> NoPatch, ok |-> TRUE]

\* notifyPresetListeners()
notifyPresetListeners == Invoke(presetListeners, 1)

\* getPresets() up to its await: the cached presets, or a GET.
getPresets ==
    /\ IF DOMAIN presets # {}
       THEN /\ settled' = Some(Settled(GetPresets, "resolved"))
            /\ sent' = <<>>
            /\ UNCHANGED inflight
       ELSE /\ settled' = None
            /\ sent' = <<HttpGetPresets>>
            /\ inflight' = Issue(PresetsRequest)
    /\ called' = None /\ completed' = None
    /\ notified' = <<>> /\ presetNotified' = <<>>
    /\ UNCHANGED <<mathVars, discoveryVars, presetVars, useWebSockets, connVars, mirrorVars, stateListeners>>

\* The GET of getPresets ends: the body is formatted and kept, the preset
\* listeners are notified and the call resolves; a failure is rethrown.
PresetsComplete ==
    /\ PresetsRequest \in inflight
    /\ inflight' = inflight \ {PresetsRequest}
    /\ \E ok \in BOOLEAN :
         /\ completed' = Some([req |-> PresetsRequest, ok |-> ok])
         /\ IF ok
            THEN \E raw \in RawPresets :
                   /\ presets' = FormatPresets(raw)
                   /\ populated' = TRUE
                   /\ presetNotified' = notifyPresetListeners.invoked
                   /\ settled' = Some(Settled(GetPresets, IF notifyPresetListeners.escaped
                                                          THEN "rejected" ELSE "resolved"))
            ELSE /\ UNCHANGED <<presets, populated>>
                 /\ presetNotified' = <<>>
                 /\ settled' = Some(Settled(GetPresets, "rejected"))
    /\ called' = None
    /\ sent' = <<>> /\ notified' = <<>>
    /\ UNCHANGED <<mathVars, discoveryVars, presetListeners, useWebSockets, connVars, mirrorVars,
                   stateListeners>>

\* addPresetListener(listener)
addPresetListener(l) ==
    /\ presetListeners' = Append(presetListeners, l)
    /\ sent' = <<>> /\ notified' = <<>>
    /\ NoMutatorEvent
    /\ UNCHANGED <<mathVars, discoveryVars, presets, populated, useWebSockets, connVars, mirrorVars,
                   stateListeners, inflight>>

\* removePresetListener(listener): splice out the first occurrence.
removePresetListener(l) ==
    /\ \E i \in 1..Len(presetListeners) :
         /\ presetListeners[i] = l
         /\ \A j \in 1..(i - 1) : presetListeners[j] # l
         /\ presetListeners' = SubSeq(presetListeners, 1, i - 1)
                               \o SubSeq(presetListeners, i + 1, Len(presetListeners))
    /\ sent' = <<>> /\ notified' = <<>>
    /\ NoMutatorEvent
    /\ UNCHANGED <<mathVars, discoveryVars, presets, populated, useWebSockets, connVars, mirrorVars,
                   stateListeners, inflight>>

\* activatePreset's awaited POST, and the updateStateViaHTTP() it awaits
\* afterwards.
ActivatePost(c) == [kind |-> "activate", call |-> c, pushFailed |-> FALSE]
Refetch(c) == [kind |-> "refetch", call |-> c, pushFailed |-> FALSE]

\* activatePreset(presetId) is called.  Connected: the frame is sent, the
\* two preset ids are set, the listeners notified and the call returns.
\* Otherwise the POST is awaited.
activatePreset(presetId) ==
    LET c == PresetCall(presetId)
    IN /\ called' = Some(c)
       /\ completed' = None
       /\ IF useWebSockets /\ isConnected
          THEN \E sendThrows \in BOOLEAN :
                 /\ sendThrows => webSocket = "open"
                 /\ sent' = sendWebSocketUpdate(c, sendThrows)
                 /\ inflight' = IF HttpPost(c) \in {sent'[i] : i \in 1..Len(sent')}
                                THEN Issue(Fallback(c, sendThrows)) ELSE inflight
                 /\ activePresetId' = presetId
                 /\ state' = ApplyCall(state, c)
                 /\ notified' = notifyListeners.invoked
                 /\ settled' = Some(Settled(c, "resolved"))
          ELSE /\ sent' = <<HttpPost(c)>>
               /\ inflight' = Issue(ActivatePost(c))
               /\ notified' = <<>>
               /\ settled' = None
               /\ UNCHANGED <<state, activePresetId>>
       /\ presetNotified' = <<>>
       /\ UNCHANGED <<mathVars, discoveryVars, presetVars, useWebSockets, connVars, segments,
                      stateListeners>>

\* The POST of activatePreset ends.  On success the two preset ids are set
\* and the listeners notified; then, unless the channel is connected by
\* now, the state is fetched and the call waits for it.
ActivatePostCompletes(req) ==
    /\ req \in inflight /\ req.kind = "activate"
    /\ \E ok \in BOOLEAN :
         /\ completed' = Some([req |-> req, ok |-> ok])
         /\ IF ok
            THEN /\ activePresetId' = req.call.presetId
                 /\ state' = ApplyCall(state, req.call)
                 /\ notified' = notifyListeners.invoked
                 /\ IF useWebSockets /\ isConnected
                    THEN /\ inflight' = inflight \ {req}
                         /\ sent' = <<>>
                         /\ settled' = Some(Settled(req.call, "resolved"))
                    ELSE /\ inflight' = (inflight \ {req}) \cup {Refetch(req.call)}
                         /\ sent' = <<HttpGet>>
                         /\ settled' = None
            ELSE /\ inflight' = inflight \ {req}
                 /\ sent' = <<>> /\ notified' = <<>>
                 /\ settled' = Some(Settled(req.call, "rejected"))
                 /\ UNCHANGED <<state, activePresetId>>
    /\ called' = None
    /\ presetNotified' = <<>>
    /\ UNCHANGED <<mathVars, discoveryVars, presetVars, useWebSockets, connVars, segments,
                   stateListeners>>

\* The state fetch of activatePreset ends: the mirror is rebuilt from the
\* answer and the call resolves, or the failure is rethrown.
RefetchCompletes(req) ==
    /\ req \in inflight /\ req.kind = "refetch"
    /\ inflight' = inflight \ {req}
    /\ \E ok \in BOOLEAN :
         /\ completed' = Some([req |-> req, ok |-> ok])
         /\ IF ok
            THEN /\ \E data \in StateData : updateStateFromData(data)
                 /\ settled' = Some(Settled(req.call, "resolved"))
            ELSE /\ UNCHANGED mirrorVars
                 /\ notified' = <<>>
                 /\ settled' = Some(Settled(req.call, "rejected"))
    /\ called' = None
    /\ sent' = <<>>
    /\ presetNotified' = <<>>
    /\ UNCHANGED <<mathVars, discoveryVars, presetVars, useWebSockets, connVars, stateListeners>>

----------------------------------------------------------------------------
(* The session after its constructor has run. *)

DiscoveryIdle ==
    /\ checkQueue = <<>>
    /\ isProcessingQueue = FALSE
    /\ loops = <<>>
    /\ discoveredDevices = <<>>
    /\ lastAdd = None
    /\ discoveryListeners = <<>>
    /\ published = <<>>
    /\ isDiscovering = FALSE
    /\ discoveryTimer = "none"
    /\ mdnsBrowser = "none"
    /\ udpSocket = "none"
    /\ timers = 0
    /\ browsers = 0
    /\ sockets = 0
    /\ mdnsWindows = 0
    /\ udpWindows = 0
    /\ direct = <<>>

\* constructor: with the push channel, connectWebSocket() and one
\* updateStateViaHTTP(); without it, startPolling().  (getDeviceInfo() is
\* issued too; this.info is read by nothing modelled.)
SessionInit ==
    /\ useWebSockets \in BOOLEAN
    /\ isConnected = FALSE
    /\ IF useWebSockets
       THEN \E throws \in BOOLEAN :
              IF throws
              THEN webSocket = "none" /\ reconnectAttempts = 1 /\ reconnectTimer = "armed"
              ELSE webSocket = "connecting" /\ reconnectAttempts = 0 /\ reconnectTimer = "none"
       ELSE webSocket = "none" /\ reconnectAttempts = 0 /\ reconnectTimer = "none"
    /\ reconnectDelay = IF reconnectTimer = "armed" THEN RetryDelay(reconnectAttempts) ELSE 0
    /\ pollTimer = IF useWebSockets THEN "none" ELSE "armed"
    /\ state = InitialState
    /\ segments = <<>>
    /\ activePresetId = -1
    /\ stateListeners = <<>>
    /\ inflight = {Get}
    /\ fellBack = FALSE
    /\ called = None /\ settled = None /\ completed = None
    /\ sent = <<HttpGet>>
    /\ notified = <<>>
    /\ presets = <<>>
    /\ presetListeners = <<>>
    /\ presetNotified = <<>>
    /\ populated = FALSE

\* No conversion is under test.
NoConversion ==
    /\ arguments = None
    /\ returned = None

Init == SessionInit /\ DiscoveryIdle /\ NoConversion

\* Next: the push channel, the timers and the pull path, then the calls of
\* the accessory layer and the answers to their requests.
Next ==
    \/ ReconnectTimerFires
    \/ WsOpen
    \/ WsError
    \/ WsClose
    \/ \E m \in Messages : WsMessage(m)
    \/ PollTick
    \/ GetCompletes
    \/ \E c \in Calls : Mutator(c)
    \/ \E req \in inflight : PostSucceeds(req)
    \/ \E req \in inflight : PostFails(req)
    \/ \E req \in inflight : FallbackCompletes(req)
    \/ \E l \in ListenerIds : Len(stateListeners) < MaxListeners /\ addStateListener(l)
    \/ \E l \in ListenerIds : removeStateListener(l)
    \/ stopPolling
    \/ cleanup

Spec == Init /\ [][Next]_vars

\* The session left to itself: no call of the accessory layer, in
\* particular no stopPolling() and no cleanup().
LiveNext ==
    \/ ReconnectTimerFires
    \/ WsOpen
    \/ WsError
    \/ WsClose
    \/ \E m \in Messages : WsMessage(m)
    \/ PollTick
    \/ GetCompletes

\* A connection attempt comes to an end, and an errored socket closes.
AttemptResolves ==
    \/ webSocket = "connecting" /\ (WsOpen \/ WsError \/ WsClose)
    \/ webSocket = "closing" /\ WsClose

\* Timers fire and connection attempts end; an HTTP request may hang.
LiveSpec ==
    /\ Init
    /\ [][LiveNext]_vars
    /\ WF_vars(ReconnectTimerFires)
    /\ WF_vars(AttemptResolves)
    /\ WF_vars(PollTick)

\* The session with its listeners, up to and after cleanup().
TeardownNext ==
    \/ ReconnectTimerFires
    \/ WsOpen
    \/ WsError
    \/ WsClose
    \/ \E m \in Messages : WsMessage(m)
    \/ PollTick
    \/ GetCompletes
    \/ \E l \in ListenerIds : Registered < MaxRegistered /\ addStateListener(l)
    \/ \E l \in PresetListenerIds : Registered < MaxRegistered /\ addPresetListener(l)
    \/ \E l \in PresetListenerIds : removePresetListener(l)
    \/ stopPolling
    \/ cleanup

TeardownSpec == Init /\ [][TeardownNext]_vars

\* The mirror under every mutator that writes brightness or colour and
\* under the device's push messages and pull responses, on a session whose
\* channel, once open, stays open.
Orange == [r |-> 255, g |-> 128, b |-> 64]
MirrorSegments == {1, 2}
MirrorCalls ==
    {Call("setBrightness", FALSE, n, Black) : n \in {40, 150}}
    \cup {Call("setColor", FALSE, 0, Orange)}
    \cup {HsvCall(120, 100, 100), HsvCall(2, 1, 100)}
    \cup {SegmentCall("setSegmentBrightness", i, 0 - 10, Black) : i \in MirrorSegments}
    \cup {SegmentCall("setSegmentColor", i, 0, Orange) : i \in MirrorSegments}

MirrorNext ==
    \/ WsOpen
    \/ \E m \in Messages : WsMessage(m)
    \/ PollTick
    \/ GetCompletes
    \/ \E c \in MirrorCalls : Mutator(c)
    \/ \E req \in inflight : PostSucceeds(req)
    \/ \E req \in inflight : PostFails(req)
    \/ \E req \in inflight : FallbackCompletes(req)

MirrorSpec == Init /\ [][MirrorNext]_vars

\* The segment-scoped mutators on a session that learns its segments from
\* the device.
Green == [r |-> 0, g |-> 255, b |-> 0]
SegmentArgs == {1}
SegmentCalls ==
    {SegmentPowerCall(i, FALSE) : i \in SegmentArgs}
    \cup {SegmentCall("setSegmentBrightness", i, 40, Black) : i \in SegmentArgs}
    \cup {SegmentCall("setSegmentColor", i, 0, Green) : i \in SegmentArgs}
    \cup {SegmentHsvCall(i, 240, 100, 100) : i \in SegmentArgs}
    \cup {SegmentEffectCall(i, 9) : i \in SegmentArgs}

SegmentNext ==
    \/ WsOpen
    \/ \E m \in Messages : WsMessage(m)
    \/ GetCompletes
    \/ \E c \in SegmentCalls : Mutator(c)
    \/ \E req \in inflight : PostSucceeds(req)
    \/ \E req \in inflight : PostFails(req)
    \/ \E req \in inflight : FallbackCompletes(req)
    \/ \E l \in ListenerIds : Len(stateListeners) < MaxListeners /\ addStateListener(l)

SegmentSpec == Init /\ [][SegmentNext]_vars

\* The session under everything the channel may deliver, well formed or
\* not, with its connection life cycle.
InboundNext ==
    \/ ReconnectTimerFires
    \/ WsOpen
    \/ WsError
    \/ WsClose
    \/ \E m \in InboundMessages : WsMessage(m)
    \/ GetCompletes
    \/ \E l \in ListenerIds : Len(stateListeners) < MaxListeners /\ addStateListener(l)

InboundSpec == Init /\ [][InboundNext]_vars

\* The preset registry and preset activation.
PresetArgs == {1}
PresetNext ==
    \/ WsOpen
    \/ GetCompletes
    \/ getPresets
    \/ PresetsComplete
    \/ \E l \in PresetListenerIds : Registered < MaxRegistered /\ addPresetListener(l)
    \/ \E id \in PresetArgs : activatePreset(id)
    \/ \E req \in inflight : ActivatePostCompletes(req)
    \/ \E req \in inflight : RefetchCompletes(req)
    \/ \E req \in inflight : FallbackCompletes(req)

PresetSpec == Init /\ [][PresetNext]_vars

----------------------------------------------------------------------------
(* Claims about the session. *)

\* C1 (as stated): setPower, setBrightness and setColor update the mirror
\* and notify every state listener in the call itself, in either transport
\* mode, whether or not the transport ever confirms the request.
C1_OptimisticInEitherMode ==
    called # None =>
        /\ state = ApplyCall(state, called[1])
        /\ notified = stateListeners

\* C2 (as stated): when the channel is Connected, the push send of a mutator
\* has failed and the HTTP POST of the same patch fails too, the mutator
\* call fails to its caller.
C2_DoubleFailurePropagates ==
    (/\ completed # None
     /\ completed[1].req.kind = "fallback"
     /\ completed[1].req.pushFailed
     /\ ~completed[1].ok)
    => settled = Some(Settled(completed[1].req.call, "rejected"))

C5_FallbackIsPermanent ==
    fellBack =>
        /\ ~isConnected
        /\ webSocket \notin {"connecting", "open"}
        /\ reconnectTimer # "armed"

C5_Witness ==
    /\ fellBack
    /\ webSocket = "closed"
    /\ completed # None

\* What cleanup() leaves: no timer, no socket, no listener.
Released ==
    /\ pollTimer = "none"
    /\ reconnectTimer = "none"
    /\ webSocket = "none"
    /\ stateListeners = <<>>
    /\ presetListeners = <<>>

\* C15: cleanup() leaves no poll timer, no reconnect timer, no socket and
\* no state or preset listener; called on a session it has already cleaned
\* up, it changes nothing of the session.
C15_CleanupIdempotent ==
    [][cleanup
       => /\ Released'
          /\ Released => UNCHANGED <<useWebSockets, connVars, mirrorVars, stateListeners,
                                     presetVars, inflight>>]_vars

C15_Witness ==
    /\ Released
    /\ useWebSockets /\ isConnected
    /\ reconnectAttempts = 0
    /\ called = None /\ completed = None /\ notified = <<>>
    /\ segments # <<>>

\* No timer armed and no socket: nothing is left that could call back.
Quiet ==
    /\ pollTimer = "none"
    /\ reconnectTimer # "armed"
    /\ webSocket = "none"

\* C16: cleanup() leaves no poll timer and no reconnect timer armed and no
\* socket, whatever state it is called in, and from then on no step arms
\* one, fetches the state or opens a connection.
C16_NoCallbackAfterCleanup ==
    [][/\ cleanup => Quiet'
       /\ Quiet => (Quiet' /\ sent' = <<>>)]_vars

C16_Witness ==
    /\ Quiet
    /\ useWebSockets /\ isConnected
    /\ completed # None /\ completed[1].ok
    /\ state.on

\* The sub-states of the mirror: the top-level state and each segment's.
SubStates(st) ==
    {st} \cup (IF st.segmentState = None THEN {}
               ELSE {st.segmentState[1][i] : i \in 1..Len(st.segmentState[1])})

\* C21: the mirrored brightness, top-level and of every segment, is an
\* integer in 0..100 in every reachable state, whatever the mutators were
\* called with.
C21_MirroredBrightnessInRange ==
    \A sub \in SubStates(state) : sub.brightness \in 0..100

\* C22: in every state the mirrored hue and saturation are rgbToHsv of
\* the mirrored RGB triple, for the top-level state and for every segment
\* sub-state.
C22_HueFollowsColor ==
    \A sub \in SubStates(state) :
        LET hsv == rgbToHsv(sub.color.r, sub.color.g, sub.color.b)
        IN sub.hue = hsv.h /\ sub.saturation = hsv.s

C22_Witness ==
    /\ state.color = hsvToRgb(2, 1, 100)
    /\ state.hue = 20
    /\ state.segmentState # None
    /\ state.segmentState[1][2].color = Orange
    /\ state.segmentState[1][2].hue = 20
    /\ state.segmentState[1][1].hue = 0

\* C23: when setHSV(h, s, v) has resolved, the mirrored hue is h and the
\* mirrored saturation is s.
C23_SetHsvMirrorsArguments ==
    (settled # None /\ settled[1].outcome = "resolved" /\ settled[1].call.op = "setHSV")
    => /\ state.hue = settled[1].call.hsv.h
       /\ state.saturation = settled[1].call.hsv.s

C25_FailedFetchGivesEmpty ==
    (completed # None /\ completed[1].req.kind = "presets" /\ ~completed[1].ok)
    => /\ settled = Some(Settled(GetPresets, "resolved"))
       /\ DOMAIN presets = {}

\* C26: once a getPresets has filled the registry from the device, every
\* later getPresets call resolves from the cache: it fetches nothing (and
\* so notifies no preset listener), an empty preset map included.
C26_CachedAfterPopulation ==
    [][(populated /\ getPresets)
       => /\ sent' = <<>>
          /\ settled' = Some(Settled(GetPresets, "resolved"))
          /\ inflight' = inflight]_vars

\* C31: the reconnect attempt counter is always in 0..10 and no pending
\* retry has a delay above 25 s; a channel open resets the counter to 0; a
\* step that schedules a retry raises the counter by exactly one and gives
\* the retry the delay 5 s times min(counter, 5); and nothing else changes
\* the counter.
C31_CounterAndDelayBounded ==
    /\ [](reconnectAttempts \in 0..10 /\ reconnectDelay <= 25000)
    /\ [][WsOpen => reconnectAttempts' = 0]_vars
    /\ [][((WsClose \/ ReconnectTimerFires) /\ reconnectTimer' = "armed")
            => /\ reconnectAttempts' = reconnectAttempts + 1
               /\ \E n \in 1..10 : /\ reconnectAttempts' = n
                                   /\ reconnectDelay' = 5000 * (IF n < 5 THEN n ELSE 5)]_vars
    /\ [][reconnectAttempts' # reconnectAttempts
            => WsOpen \/ ((WsClose \/ ReconnectTimerFires) /\ reconnectTimer' = "armed")]_vars

\* The tenth retry is pending, with the longest delay.
C31_Witness ==
    /\ reconnectAttempts = 10
    /\ reconnectTimer = "armed"
    /\ reconnectDelay = 25000

\* A message that fails JSON.parse or fails while it is applied.
Malformed(m) ==
    \/ m.kind = "garbage"
    \/ m.kind = "state" /\ MapThrows(m.state[1].seg)
    \/ m.kind = "seg" /\ MapThrows(m.seg)

\* C32: the step of a malformed push message leaves the mirrored state, the
\* segment list and the active preset id as they were, leaves the session
\* marked as it was with its channel, and calls no listener.
C32_MalformedDropped ==
    [][\A m \in InboundMessages :
          (Malformed(m) /\ WsMessage(m))
          => /\ UNCHANGED <<state, segments, activePresetId>>
             /\ UNCHANGED <<isConnected, webSocket>>
             /\ notified' = <<>>]_vars

\* The segment list a message carries, if any, and what getSegmentState
\* can return afterwards.
Received(m) == IF m.kind = "state" THEN m.state[1].seg ELSE m.seg
SubStatesOf(st) == IF st.segmentState = None THEN <<>> ELSE st.segmentState[1]
Reflects(segs, st, list) ==
    /\ Len(segs) = Len(list)
    /\ Len(SubStatesOf(st)) = Len(list)
    /\ \A i \in 1..Len(list) :
          /\ segs[i].id = i - 1
          /\ segs[i].on = list[i].on
          /\ SubStatesOf(st)[i].on = list[i].on
          /\ list[i].bri # None => /\ segs[i].brightness = toPublic(list[i].bri[1])
                                   /\ SubStatesOf(st)[i].brightness = toPublic(list[i].bri[1])
          /\ list[i].col # None => /\ segs[i].colors = list[i].col[1]
                                   /\ SubStatesOf(st)[i].color.r = list[i].col[1][1][1]

\* C33: after a well-formed push message that carries a segment list, in a
\* full state or on its own, the segment list and the per-segment
\* sub-states have the length and order of the received list and the
\* received values, an empty list included.
C33_SegmentListReplaced ==
    [][\A m \in InboundMessages :
          (~Malformed(m) /\ Received(m) # None /\ WsMessage(m))
          => Reflects(segments', state', Received(m)[1])]_vars

\* The sub-state field a segment-scoped call is to change holds the
\* call's value.
FieldSet(sub, c) ==
    IF c.op = "setSegmentPower" THEN sub.on = c.on
    ELSE IF c.op = "setSegmentBrightness" THEN sub.brightness = c.brightness
    ELSE IF c.op = "setSegmentEffect" THEN sub.effect = c.effect
    ELSE sub.color = ColorOf(c)

\* C34: when a segment-scoped mutator called with the index of a segment
\* in the list resolves, that segment's sub-state holds the value for the
\* field the mutator changes, every other sub-state and every top-level
\* field is as before, and every state listener has been called.
C34_SegmentMutatorMirrors ==
    [][(/\ settled' # None
        /\ settled'[1].outcome = "resolved"
        /\ settled'[1].call \in SegmentCalls
        /\ settled'[1].call.segmentIndex < Len(segments))
       => LET c == settled'[1].call
              i == c.segmentIndex + 1
          IN /\ HasSegmentState(state, c.segmentIndex)
             /\ HasSegmentState(state', c.segmentIndex)
             /\ FieldSet(state'.segmentState[1][i], c)
             /\ Len(state'.segmentState[1]) = Len(state.segmentState[1])
             /\ \A j \in 1..Len(state.segmentState[1]) :
                   j # i => state'.segmentState[1][j] = state.segmentState[1][j]
             /\ [state' EXCEPT !.segmentState = state.segmentState] = state
             /\ notified' = stateListeners]_vars

\* C35: when a mutator has just updated the mirror while a state fetch
\* was already under way, the answer to that fetch leaves the field the
\* mutator wrote as the mutator wrote it.
C35_StaleResponseKeepsMutation ==
    [][(/\ settled # None
        /\ settled[1].outcome = "resolved"
        /\ settled[1].call \in Calls
        /\ Get \in inflight
        /\ GetCompletes
        /\ completed'[1].ok)
       => LET c == settled[1].call
          IN /\ c.op = "setPower" => state'.on = c.on
             /\ c.op = "setBrightness" => state'.brightness = c.brightness
             /\ c.op = "setColor" => state'.color = c.color]_vars

\* C37: a session marked Connected holds a push channel that is open.
C37_ConnectedHasOpenChannel == isConnected => webSocket = "open"

\* C30: the step of a push-channel 'close' or 'error' event leaves the
\* session marked Disconnected and with either a reconnection timer or the
\* poll timer armed.
C30_DisconnectedAfterCloseOrError ==
    [][(WsClose \/ WsError)
        => /\ ~isConnected'
           /\ reconnectTimer' = "armed" \/ pollTimer' = "armed"]_vars

Digits == {"0", "1", "2", "3", "4", "5", "6", "7", "8", "9"}
NumericKey(id) == Len(id) > 0 /\ \A i \in 1..Len(id) : id[i] \in Digits

\* C27: every key of the registry built by getPresets parses as a number.
C27_OnlyNumericKeys ==
    \A id \in DOMAIN presets : NumericKey(id)

----------------------------------------------------------------------------
(* WLEDDiscoveryService: values. *)

\* A host name is the sequence of its dot-separated labels; a trailing dot
\* leaves an empty last label.  A MAC address is a sequence of characters.
HostStrip == <<"wled-strip", "local">>
HostDesk  == <<"wled-desk", "local">>
Addr50    == <<"10", "0", "1", "50">>
Addr51    == <<"10", "0", "1", "51">>

\* What a serviceUp event carries (service.host, service.port) and the
\* source addresses of UDP responses.
AdvertisedHosts == {HostStrip \o <<"">>, HostDesk}
AdvertisedPorts == {0, 80}
ResponderAddresses == {Addr50, Addr51}

MacA == <<"A", "A", ":", "B", "B">>
MacC == <<"C", "C", ":", "D", "D">>

\* Answers to GET /json/info: no answer (refused, timed out), a body that is
\* not WLED's, and the identity of one of two WLED devices.
Answer(ok, ver, name, brand, mac, leds) ==
    [ok |-> ok, ver |-> ver, name |-> name, brand |-> brand, mac |-> mac, leds |-> leds]
NoAnswer == Answer(FALSE, None, None, None, None, None)
Answers ==
    {NoAnswer,
     Answer(TRUE, None, Some(<<"router">>), None, None, None),
     Answer(TRUE, Some("0.14.0"), Some(<<"Strip">>), Some("WLED"), Some(MacA), Some(30)),
     Answer(TRUE, Some("0.14.0"), None, Some("WLED"), Some(MacC), None)}

\* host.replace(/\.$/, '')
StripTrailingDot(host) ==
    IF Len(host) > 1 /\ host[Len(host)] = "" THEN SubSeq(host, 1, Len(host) - 1) ELSE host

\* host.endsWith('.local')
EndsWithLocal(host) == Len(host) > 1 /\ host[Len(host)] = "local"

\* data.mac?.replace(/:/g, '') || `wled-${host}`
NotColon(ch) == ch # ":"
DeviceId(data, host) ==
    IF data.mac # None /\ SelectSeq(data.mac[1], NotColon) # <<>>
    THEN SelectSeq(data.mac[1], NotColon)
    ELSE <<"wled-">> \o host

\* The DiscoveredWLEDDevice built by checkIfWLED.
DeviceOf(data, host, port, method) ==
    [name |-> IF data.name # None THEN data.name[1] ELSE <<"WLED">> \o host,
     host |-> host,
     port |-> port,
     id |-> DeviceId(data, host),
     discoveryMethod |-> method,
     info |-> Some([version |-> IF data.ver # None THEN data.ver[1] ELSE "Unknown",
                    macAddress |-> IF data.mac # None THEN data.mac[1] ELSE <<"Unknown">>,
                    ledCount |-> IF data.leds # None THEN data.leds[1] ELSE 0])]

\* data && data.ver && (data.name || data.brand === 'WLED')
IsWLED(data) ==
    /\ data.ok
    /\ data.ver # None
    /\ (data.name # None \/ data.brand = Some("WLED"))

Item(host, port, method) == [host |-> host, port |-> port, method |-> method]
SamePair(item, host, port) == item.host = host /\ item.port = port

----------------------------------------------------------------------------
(* WLEDDiscoveryService: merge of a confirmed device. *)

\* addDiscoveredDevice(device) on the map devices: the new map and whether
\* notifyListeners() was called.
Merged(devices, republished) == [devices |-> devices, notified |-> republished]
\* Mutant of addDiscoveredDevice: an entry, once made, is never replaced.
addDiscoveredDeviceKeepsFirst(devices, device) ==
    IF device.id \in DOMAIN devices
    THEN Merged(devices, FALSE)
    ELSE Merged((device.id :> device) @@ devices, TRUE)

\* Mutant of addDiscoveredDevice: a candidate at another host replaces the
\* entry whatever the two hosts look like.
addDiscoveredDeviceTakesLast(devices, device) ==
    IF device.id \in DOMAIN devices
    THEN IF devices[device.id].host = device.host
         THEN Merged(devices, FALSE)
         ELSE Merged([devices EXCEPT ![device.id] = device], TRUE)
    ELSE Merged((device.id :> device) @@ devices, TRUE)

\* Mutant of addDiscoveredDevice: a candidate at the host of the entry
\* replaces it and is republished.
addDiscoveredDeviceRefreshes(devices, device) ==
    LET key == device.id IN
    IF key \in DOMAIN devices
    THEN LET existing == devices[key]
             existingIsLocal == EndsWithLocal(existing.host)
             newIsLocal == EndsWithLocal(device.host)
         IN IF ~existingIsLocal /\ newIsLocal
            THEN Merged(devices, FALSE)
            ELSE IF existingIsLocal /\ ~newIsLocal
            THEN Merged([devices EXCEPT ![key] = device], TRUE)
            ELSE IF existing.host = device.host
            THEN Merged([devices EXCEPT ![key] = device], TRUE)
            ELSE Merged(devices, FALSE)
    ELSE Merged((key :> device) @@ devices, TRUE)

\* Mutant of addDiscoveredDevice: the address that replaces a .local name
\* is stored without notifyListeners().
addDiscoveredDeviceSilentUpdate(devices, device) ==
    LET key == device.id IN
    IF key \in DOMAIN devices
    THEN LET existing == devices[key]
             existingIsLocal == EndsWithLocal(existing.host)
             newIsLocal == EndsWithLocal(device.host)
         IN IF ~existingIsLocal /\ newIsLocal
            THEN Merged(devices, FALSE)
            ELSE IF existingIsLocal /\ ~newIsLocal
            THEN Merged([devices EXCEPT ![key] = device], FALSE)
            ELSE IF existing.host = device.host
            THEN IF device.info # None /\ existing.info = None
                 THEN Merged([devices EXCEPT ![key] = device], TRUE)
                 ELSE Merged(devices, FALSE)
            ELSE Merged(devices, FALSE)
    ELSE Merged((key :> device) @@ devices, TRUE)

addDiscoveredDevice(devices, device) ==
    LET key == device.id IN
    IF key \in DOMAIN devices
    THEN LET existing == devices[key]
             existingIsLocal == EndsWithLocal(existing.host)
             newIsLocal == EndsWithLocal(device.host)
         IN IF ~existingIsLocal /\ newIsLocal
            THEN Merged(devices, FALSE)
            ELSE IF existingIsLocal /\ ~newIsLocal
            THEN Merged([devices EXCEPT ![key] = device], TRUE)
            ELSE IF existing.host = device.host
            THEN IF device.info # None /\ existing.info = None
                 THEN Merged([devices EXCEPT ![key] = device], TRUE)
                 ELSE Merged(devices, FALSE)
            ELSE Merged(devices, FALSE)
    ELSE Merged((key :> device) @@ devices, TRUE)

\* notifyListeners() of the service on the map devices: the deliveries
\* made, and whether an exception got out of it.
Delivery(listener, devices) == [listener |-> listener, devices |-> devices]
notifyDiscoveryListeners(devices) ==
    LET run == Invoke(discoveryListeners, 1)
    IN [deliveries |-> [i \in 1..Len(run.invoked) |-> Delivery(run.invoked[i], devices)],
        escaped |-> run.escaped]

\* addDiscoveredDevice(device), its notification included: the new map,
\* the deliveries and whether an exception got out.
AddAndNotify(device) ==
    LET merged == addDiscoveredDevice(discoveredDevices, device)
        told == notifyDiscoveryListeners(merged.devices)
    IN [devices |-> merged.devices,
        notified |-> merged.notified,
        deliveries |-> IF merged.notified THEN told.deliveries ELSE <<>>,
        escaped |-> merged.notified /\ told.escaped]

\* What lastAdd keeps of a call: the candidate, the entry found under its id
\* and whether the set was republished.
Added(device, republished) ==
    [device |-> device,
     existing |-> IF device.id \in DOMAIN discoveredDevices
                  THEN Some(discoveredDevices[device.id]) ELSE None,
     notified |-> republished]

----------------------------------------------------------------------------
(* WLEDDiscoveryService: the check queue and its drain loop.               *)
(* processCheckQueue is an async function: loops holds its activations,    *)
(* each suspended at the probe ("probing") or at the 2 s delay ("delay").  *)

\* isWLED is the loop's local of that name, set when the probe has ended.
Probing(item) == [pc |-> "probing", item |-> item, isWLED |-> FALSE]
Delaying(item, isWLED) == [pc |-> "delay", item |-> item, isWLED |-> isWLED]

\* The loop head: while (queue.length > 0) { item = shift(); await probe }
\* and, with the queue empty, isProcessingQueue = false and return.  Given
\* for the activation at index i; the new <<queue, flag, loops>>.
LoopHead(queue, lps, i) ==
    IF Len(queue) > 0
    THEN <<Tail(queue), TRUE, [lps EXCEPT ![i] = Probing(Head(queue))]>>
    ELSE <<queue, FALSE, SubSeq(lps, 1, i - 1) \o SubSeq(lps, i + 1, Len(lps))>>

\* processCheckQueue() up to its first await, on queue: the new
\* <<queue, flag, loops>>.
processCheckQueue(queue) ==
    IF isProcessingQueue \/ Len(queue) = 0
    THEN <<queue, isProcessingQueue, loops>>
    ELSE <<Tail(queue), TRUE, Append(loops, Probing(Head(queue)))>>

\* queueDeviceCheck(host, port, method)
queueDeviceCheck(host, port, method) ==
    IF \E k \in 1..Len(checkQueue) : SamePair(checkQueue[k], host, port)
    THEN UNCHANGED <<checkQueue, isProcessingQueue, loops>>
    ELSE LET pushed == Append(checkQueue, Item(host, port, method))
             started == IF ~isProcessingQueue
                        THEN processCheckQueue(pushed)
                        ELSE <<pushed, isProcessingQueue, loops>>
         IN /\ checkQueue' = started[1]
            /\ isProcessingQueue' = started[2]
            /\ loops' = started[3]

\* 'serviceUp' of the mDNS browser
serviceUp(host, port) ==
    /\ mdnsBrowser = "browsing"
    /\ queueDeviceCheck(StripTrailingDot(host), IF port # 0 THEN port ELSE 80, "mdns")
    /\ lastAdd' = None
    /\ published' = <<>>
    /\ UNCHANGED <<discoveredDevices, discoveryListeners, scannerVars, direct, sessionVars, mathVars>>

\* Mutant of serviceDown: the devices found by the browser are dropped.
serviceDownRemoves ==
    /\ mdnsBrowser = "browsing"
    /\ discoveredDevices' =
         [k \in {d \in DOMAIN discoveredDevices :
                   discoveredDevices[d].discoveryMethod # "mdns"} |-> discoveredDevices[k]]
    /\ lastAdd' = None
    /\ published' = <<>>
    /\ UNCHANGED <<checkQueue, isProcessingQueue, loops,
                   discoveryListeners, scannerVars, direct, sessionVars, mathVars>>

\* 'serviceDown' of the mDNS browser: logged only.
serviceDown ==
    /\ mdnsBrowser = "browsing"
    /\ lastAdd' = None
    /\ published' = <<>>
    /\ UNCHANGED <<checkQueue, isProcessingQueue, loops, discoveredDevices,
                   discoveryListeners, scannerVars, direct, sessionVars, mathVars>>

\* 'message' of the UDP socket
udpMessage(address) ==
    /\ udpSocket = "open"
    /\ queueDeviceCheck(address, 80, "ssdp")
    /\ lastAdd' = None
    /\ published' = <<>>
    /\ UNCHANGED <<discoveredDevices, discoveryListeners, scannerVars, direct, sessionVars, mathVars>>

\* Mutant of ProbeCompletes: isProcessingQueue is cleared as soon as the
\* probe has ended, before the delay.
ProbeCompletesClearsFlag(i, data) ==
    /\ i \in 1..Len(loops)
    /\ loops[i].pc = "probing"
    /\ LET item == loops[i].item
           device == DeviceOf(data, item.host, item.port, item.method)
           added == AddAndNotify(device)
       IN IF IsWLED(data)
          THEN /\ loops' = [loops EXCEPT ![i] = Delaying(item, ~added.escaped)]
               /\ discoveredDevices' = added.devices
               /\ lastAdd' = Some(Added(device, added.notified))
               /\ published' = added.deliveries
          ELSE /\ loops' = [loops EXCEPT ![i] = Delaying(item, FALSE)]
               /\ UNCHANGED discoveredDevices
               /\ lastAdd' = None
               /\ published' = <<>>
    /\ isProcessingQueue' = FALSE
    /\ UNCHANGED <<checkQueue, discoveryListeners, scannerVars, direct, sessionVars, mathVars>>

\* Mutant of ProbeCompletes: a probe that finds no WLED device ends the
\* activation (its error escapes the loop), isProcessingQueue left set.
ProbeCompletesAborts(i, data) ==
    /\ i \in 1..Len(loops)
    /\ loops[i].pc = "probing"
    /\ LET item == loops[i].item
           device == DeviceOf(data, item.host, item.port, item.method)
           added == AddAndNotify(device)
       IN IF IsWLED(data)
          THEN /\ loops' = [loops EXCEPT ![i] = Delaying(item, ~added.escaped)]
               /\ discoveredDevices' = added.devices
               /\ lastAdd' = Some(Added(device, added.notified))
               /\ published' = added.deliveries
          ELSE /\ loops' = SubSeq(loops, 1, i - 1) \o SubSeq(loops, i + 1, Len(loops))
               /\ UNCHANGED discoveredDevices
               /\ lastAdd' = None
               /\ published' = <<>>
    /\ UNCHANGED isProcessingQueue
    /\ UNCHANGED <<checkQueue, discoveryListeners, scannerVars, direct, sessionVars, mathVars>>

\* The probe of activation i ends: checkIfWLED has its answer (any failure,
\* a listener's exception included, is caught and gives false), a WLED
\* identity is merged and published, and the activation goes on to its delay.
ProbeCompletes(i, data) ==
    /\ i \in 1..Len(loops)
    /\ loops[i].pc = "probing"
    /\ LET item == loops[i].item
           device == DeviceOf(data, item.host, item.port, item.method)
           added == AddAndNotify(device)
       IN IF IsWLED(data)
          THEN /\ loops' = [loops EXCEPT ![i] = Delaying(item, ~added.escaped)]
               /\ discoveredDevices' = added.devices
               /\ lastAdd' = Some(Added(device, added.notified))
               /\ published' = added.deliveries
          ELSE /\ loops' = [loops EXCEPT ![i] = Delaying(item, FALSE)]
               /\ UNCHANGED discoveredDevices
               /\ lastAdd' = None
               /\ published' = <<>>
    /\ UNCHANGED isProcessingQueue
    /\ UNCHANGED <<checkQueue, discoveryListeners, scannerVars, direct, sessionVars, mathVars>>

\* The 2 s delay of activation i elapses: back to the loop head.
DelayElapses(i) ==
    /\ i \in 1..Len(loops)
    /\ loops[i].pc = "delay"
    /\ LET head == LoopHead(checkQueue, loops, i)
       IN /\ checkQueue' = head[1]
          /\ isProcessingQueue' = head[2]
          /\ loops' = head[3]
    /\ lastAdd' = None
    /\ published' = <<>>
    /\ UNCHANGED <<discoveredDevices, discoveryListeners, scannerVars, direct, sessionVars, mathVars>>

\* The service after its constructor, beside a session that plays no part.
SessionAside ==
    /\ SessionInit
    /\ useWebSockets = FALSE

\* The service inside a discovery window: startDiscovery() has run, the
\* browser is browsing and the socket is open.
Scanning ==
    /\ checkQueue = <<>>
    /\ isProcessingQueue = FALSE
    /\ loops = <<>>
    /\ discoveredDevices = <<>>
    /\ lastAdd = None
    /\ discoveryListeners = <<>>
    /\ published = <<>>
    /\ isDiscovering = TRUE
    /\ discoveryTimer = "armed"
    /\ mdnsBrowser = "browsing"
    /\ udpSocket = "open"
    /\ timers = 1
    /\ browsers = 1
    /\ sockets = 1
    /\ mdnsWindows = 1
    /\ udpWindows = 1
    /\ direct = <<>>

DiscoveryInit == Scanning /\ SessionAside /\ NoConversion

DiscoveryNext ==
    \/ \E h \in AdvertisedHosts, p \in AdvertisedPorts : serviceUp(h, p)
    \/ \E a \in ResponderAddresses : udpMessage(a)
    \/ \E i \in 1..Len(loops), data \in Answers : ProbeCompletes(i, data)
    \/ \E i \in 1..Len(loops) : DelayElapses(i)

DiscoverySpec == DiscoveryInit /\ [][DiscoveryNext]_vars

\* Every probe carries a 20 s timeout and the delay is a timer: both end.
DiscoveryLive ==
    /\ DiscoverySpec
    /\ WF_vars(\E i \in 1..Len(loops), data \in Answers : ProbeCompletes(i, data))
    /\ WF_vars(\E i \in 1..Len(loops) : DelayElapses(i))

----------------------------------------------------------------------------
(* WLEDDiscoveryService: its public operations and the scanners' life     *)
(* cycle.                                                                  *)

DiscoveryListenerIds == {"D1", "Bad"}

\* The hosts given to addDeviceByHost.
DirectHosts == {Addr50}

\* One device on the network, which answers or not.
RegistryAnswers == {d \in Answers : d.mac = Some(MacA) \/ ~d.ok}

NoQueueStep == UNCHANGED <<checkQueue, isProcessingQueue, loops>>

\* clearDiscoveredDevices()
clearDiscoveredDevices ==
    /\ discoveredDevices' = <<>>
    /\ published' = notifyDiscoveryListeners(<<>>).deliveries
    /\ lastAdd' = None
    /\ NoQueueStep
    /\ UNCHANGED <<discoveryListeners, scannerVars, direct, sessionVars, mathVars>>

\* addDiscoveryListener(listener): the new listener is told the current
\* set at once when there is one; its exception is caught.
addDiscoveryListener(l) ==
    /\ discoveryListeners' = Append(discoveryListeners, l)
    /\ published' = IF DOMAIN discoveredDevices # {}
                    THEN <<Delivery(l, discoveredDevices)>> ELSE <<>>
    /\ lastAdd' = None
    /\ NoQueueStep
    /\ UNCHANGED <<discoveredDevices, scannerVars, direct, sessionVars, mathVars>>

\* removeDiscoveryListener(listener): splice out the first occurrence.
removeDiscoveryListener(l) ==
    /\ \E i \in 1..Len(discoveryListeners) :
         /\ discoveryListeners[i] = l
         /\ \A j \in 1..(i - 1) : discoveryListeners[j] # l
         /\ discoveryListeners' = SubSeq(discoveryListeners, 1, i - 1)
                \o SubSeq(discoveryListeners, i + 1, Len(discoveryListeners))
    /\ published' = <<>>
    /\ lastAdd' = None
    /\ NoQueueStep
    /\ UNCHANGED <<discoveredDevices, scannerVars, direct, sessionVars, mathVars>>

\* discoverDevices(): discoverWithMDNS() stops the browser it has and
\* starts a new one; discoverWithUDP() opens the socket unless there is
\* one; each arms a 60 s timeout.
Stopped(browser) == IF browser = "browsing" THEN 1 ELSE 0

Closed(socket) == IF socket = "open" THEN 1 ELSE 0

\* discoverWithMDNS(): the browser already there is stopped, a new one is
\* started and a 60 s timeout is set. discoverWithMDNSKeepsBrowser leaves
\* the browser already there running.
discoverWithMDNSKeepsBrowser ==
    /\ mdnsWindows < MaxWindows
    /\ browsers' = browsers + 1
    /\ mdnsBrowser' = "browsing"
    /\ mdnsWindows' = mdnsWindows + 1
discoverWithMDNS ==
    /\ mdnsWindows < MaxWindows
    /\ browsers' = browsers - Stopped(mdnsBrowser) + 1
    /\ mdnsBrowser' = "browsing"
    /\ mdnsWindows' = mdnsWindows + 1

\* discoverWithUDP(): a socket is created when there is none, and a 60 s
\* timeout is set.
discoverWithUDP ==
    /\ udpWindows < MaxWindows
    /\ sockets' = IF udpSocket = "none" THEN sockets + 1 ELSE sockets
    /\ udpSocket' = "open"
    /\ udpWindows' = udpWindows + 1

discoverDevices ==
    /\ discoverWithMDNS
    /\ discoverWithUDP

\* startDiscovery()
startDiscovery ==
    /\ IF isDiscovering
       THEN UNCHANGED scannerVars
       ELSE /\ isDiscovering' = TRUE
            /\ discoverDevices
            /\ discoveryTimer' = "armed"
            /\ timers' = timers + 1
    /\ published' = <<>>
    /\ lastAdd' = None
    /\ NoQueueStep
    /\ UNCHANGED <<discoveredDevices, discoveryListeners, direct, sessionVars, mathVars>>

\* stopDiscovery(): the 60 s timeouts are left pending.
stopDiscovery ==
    /\ isDiscovering' = FALSE
    /\ discoveryTimer' = "none"
    /\ timers' = IF discoveryTimer = "armed" THEN timers - 1 ELSE timers
    /\ mdnsBrowser' = "none"
    /\ browsers' = browsers - Stopped(mdnsBrowser)
    /\ udpSocket' = "none"
    /\ sockets' = sockets - Closed(udpSocket)
    /\ published' = <<>>
    /\ lastAdd' = None
    /\ NoQueueStep
    /\ UNCHANGED <<mdnsWindows, udpWindows, discoveredDevices, discoveryListeners,
                   direct, sessionVars, mathVars>>

\* The 5 min interval elapses: discoverDevices().
RediscoveryTick ==
    /\ discoveryTimer = "armed"
    /\ discoverDevices
    /\ published' = <<>>
    /\ lastAdd' = None
    /\ NoQueueStep
    /\ UNCHANGED <<isDiscovering, discoveryTimer, timers, discoveredDevices,
                   discoveryListeners, direct, sessionVars, mathVars>>

\* A 60 s timeout of discoverWithMDNS fires: the browser there is now,
\* whichever run made it, is stopped.
MdnsWindowExpires ==
    /\ mdnsWindows > 0
    /\ mdnsWindows' = mdnsWindows - 1
    /\ mdnsBrowser' = IF mdnsBrowser # "none" THEN "stopped" ELSE mdnsBrowser
    /\ browsers' = browsers - Stopped(mdnsBrowser)
    /\ published' = <<>>
    /\ lastAdd' = None
    /\ NoQueueStep
    /\ UNCHANGED <<isDiscovering, discoveryTimer, udpSocket, udpWindows, timers, sockets,
                   discoveredDevices, discoveryListeners, direct, sessionVars, mathVars>>

\* A 60 s timeout of discoverWithUDP fires: the socket is closed and
\* forgotten.
UdpWindowExpires ==
    /\ udpWindows > 0
    /\ udpWindows' = udpWindows - 1
    /\ udpSocket' = "none"
    /\ sockets' = sockets - Closed(udpSocket)
    /\ published' = <<>>
    /\ lastAdd' = None
    /\ NoQueueStep
    /\ UNCHANGED <<isDiscovering, discoveryTimer, mdnsBrowser, mdnsWindows, timers,
                   browsers, discoveredDevices, discoveryListeners, direct, sessionVars, mathVars>>

\* addDeviceByHost(host, port) up to its await: the map is keyed by id, and
\* has(host) looks the host up among the ids.
addDeviceByHost(host, port) ==
    /\ IF host \in DOMAIN discoveredDevices
       THEN UNCHANGED direct
       ELSE /\ Len(direct) < MaxDirect
            /\ direct' = Append(direct, Item(host, port, "direct"))
    /\ published' = <<>>
    /\ lastAdd' = None
    /\ NoQueueStep
    /\ UNCHANGED <<discoveredDevices, discoveryListeners, scannerVars, sessionVars, mathVars>>

\* The GET of an addDeviceByHost call ends.  Any body is taken for a WLED
\* device's; a failure, or an exception out of the notification, is caught
\* and the call returns null.
DirectCompletes(i, data) ==
    /\ i \in 1..Len(direct)
    /\ direct' = SubSeq(direct, 1, i - 1) \o SubSeq(direct, i + 1, Len(direct))
    /\ LET device == DeviceOf(data, direct[i].host, direct[i].port, "direct")
           added == AddAndNotify(device)
       IN IF data.ok
          THEN /\ discoveredDevices' = added.devices
               /\ lastAdd' = Some(Added(device, added.notified))
               /\ published' = added.deliveries
          ELSE /\ UNCHANGED discoveredDevices
               /\ lastAdd' = None
               /\ published' = <<>>
    /\ NoQueueStep
    /\ UNCHANGED <<discoveryListeners, scannerVars, sessionVars, mathVars>>

\* The service from its constructor on, with every operation and event.
RegistryInit == DiscoveryIdle /\ SessionAside /\ NoConversion

RegistryNext ==
    \/ startDiscovery
    \/ stopDiscovery
    \/ RediscoveryTick
    \/ MdnsWindowExpires
    \/ UdpWindowExpires
    \/ serviceUp(HostDesk, 80)
    \/ serviceDown
    \/ udpMessage(Addr50)
    \/ \E i \in 1..Len(loops), data \in RegistryAnswers : ProbeCompletes(i, data)
    \/ \E i \in 1..Len(loops) : DelayElapses(i)
    \/ \E h \in DirectHosts : addDeviceByHost(h, 80)
    \/ \E i \in 1..Len(direct), data \in RegistryAnswers : DirectCompletes(i, data)
    \/ \E l \in DiscoveryListenerIds : Registered < MaxRegistered /\ addDiscoveryListener(l)
    \/ \E l \in DiscoveryListenerIds : removeDiscoveryListener(l)
    \/ clearDiscoveredDevices

RegistrySpec == RegistryInit /\ [][RegistryNext]_vars

----------------------------------------------------------------------------
(* The three notifiers together: a session in polling mode and a discovery *)
(* service, each with its listeners and the operations that notify them.   *)

StateListenerIds == ListenerIds \cup {"Bad"}

NotifyInit == DiscoveryIdle /\ SessionAside /\ NoConversion

NotifyNext ==
    \/ \E l \in StateListenerIds : Registered < MaxRegistered /\ addStateListener(l)
    \/ \E l \in PresetListenerIds : Registered < MaxRegistered /\ addPresetListener(l)
    \/ \E l \in DiscoveryListenerIds : Registered < MaxRegistered /\ addDiscoveryListener(l)
    \/ GetCompletes
    \/ \E c \in Calls : c.op = "setPower" /\ Mutator(c)
    \/ \E req \in inflight : PostSucceeds(req)
    \/ getPresets
    \/ PresetsComplete
    \/ \E h \in DirectHosts : addDeviceByHost(h, 80)
    \/ \E i \in 1..Len(direct), data \in RegistryAnswers : DirectCompletes(i, data)
    \/ clearDiscoveredDevices

NotifySpec == NotifyInit /\ [][NotifyNext]_vars

----------------------------------------------------------------------------
(* Claims about discovery. *)

CandidateHosts == {StripTrailingDot(h) : h \in AdvertisedHosts} \cup ResponderAddresses

\* The copies of the pair (host, 80) not yet processed: waiting in the
\* queue, or being probed.
Queued(host) == {k \in 1..Len(checkQueue) : SamePair(checkQueue[k], host, 80)}
InProbe(host) ==
    {i \in 1..Len(loops) : loops[i].pc = "probing" /\ SamePair(loops[i].item, host, 80)}

\* C6 (as stated): a pair enqueued again before it has been processed is
\* probed once: no pair has more than one unprocessed copy, also when the
\* first enqueue started the drain loop.
C6_OneProbePerPair ==
    \A h \in CandidateHosts : Cardinality(Queued(h)) + Cardinality(InProbe(h)) <= 1

\* C7: at most one activation of the drain loop is live and at most one
\* probe is in flight.
C7_OneProbeInFlight ==
    /\ Len(loops) <= 1
    /\ Cardinality({i \in 1..Len(loops) : loops[i].pc = "probing"}) <= 1

C7_Witness ==
    /\ Len(loops) = 1
    /\ loops[1].pc = "probing"
    /\ loops[1].item.method = "ssdp"
    /\ \E k \in 1..Len(checkQueue) : checkQueue[k].method = "mdns"
    /\ \E k \in 1..Len(checkQueue) : checkQueue[k].method = "ssdp"

\* C8: a queued candidate always has a live drain loop behind it and is
\* eventually probed, whatever the earlier probes answered.
C8_EveryCandidateProbed ==
    /\ [](checkQueue # <<>> => (isProcessingQueue /\ loops # <<>>))
    /\ \A h \in CandidateHosts : (Queued(h) # {}) ~> (InProbe(h) # {})

C8_Witness ==
    /\ Len(loops) = 1
    /\ loops[1].pc = "delay"
    /\ ~loops[1].isWLED
    /\ Len(checkQueue) >= 2

\* C9: when a candidate is confirmed under the id of an entry and one of
\* the two hosts is a .local name and the other an address, the id keeps a
\* single entry and its host is the address, whichever came first.
C9_AddressWins ==
    /\ \A k \in DOMAIN discoveredDevices : discoveredDevices[k].id = k
    /\ lastAdd # None =>
         LET r == lastAdd[1] IN
         (r.existing # None
          /\ EndsWithLocal(r.existing[1].host) # EndsWithLocal(r.device.host))
         => /\ r.device.id \in DOMAIN discoveredDevices
            /\ discoveredDevices[r.device.id].host =
                 IF EndsWithLocal(r.device.host) THEN r.existing[1].host ELSE r.device.host

C9_Witness ==
    /\ lastAdd # None
    /\ lastAdd[1].existing # None
    /\ EndsWithLocal(lastAdd[1].existing[1].host)
    /\ ~EndsWithLocal(lastAdd[1].device.host)
    /\ discoveredDevices[lastAdd[1].device.id].host = lastAdd[1].device.host
    /\ Cardinality(DOMAIN discoveredDevices) = 2

\* C10: when a candidate is confirmed under the id of an entry at another
\* host and both hosts are .local names or both are addresses, the entry
\* stays as it was and the set is not republished.
C10_FirstSeenWins ==
    lastAdd # None =>
        LET r == lastAdd[1] IN
        (r.existing # None
         /\ r.existing[1].host # r.device.host
         /\ EndsWithLocal(r.existing[1].host) = EndsWithLocal(r.device.host))
        => /\ discoveredDevices[r.device.id] = r.existing[1]
           /\ ~r.notified

C10_Witness ==
    /\ lastAdd # None
    /\ lastAdd[1].existing # None
    /\ lastAdd[1].existing[1].host = Addr50
    /\ lastAdd[1].device.host = Addr51
    /\ ~lastAdd[1].notified

\* C11: a candidate confirmed under the id and at the host of an entry
\* leaves the discovered set as it was (the entry keeps its
\* discovery-method tag, nothing is republished), unless the entry has no
\* info and the candidate has.
C11_SameHostIsNoOp ==
    [][(/\ lastAdd' # None
        /\ lastAdd'[1].existing # None
        /\ lastAdd'[1].existing[1].host = lastAdd'[1].device.host
        /\ ~(lastAdd'[1].existing[1].info = None /\ lastAdd'[1].device.info # None))
       => /\ discoveredDevices' = discoveredDevices
          /\ published' = <<>>]_vars

C11_Witness ==
    /\ lastAdd # None
    /\ lastAdd[1].existing # None
    /\ lastAdd[1].existing[1].host = lastAdd[1].device.host
    /\ lastAdd[1].existing[1].discoveryMethod = "ssdp"
    /\ lastAdd[1].device.discoveryMethod = "direct"
    /\ discoveredDevices[lastAdd[1].device.id] = lastAdd[1].existing[1]
    /\ Cardinality(DOMAIN discoveredDevices) = 1
    /\ discoveryListeners # <<>>

\* What notifyListeners() owes the registered listeners for the map devices.
FullPublication(devices) ==
    [i \in 1..Len(discoveryListeners) |-> Delivery(discoveryListeners[i], devices)]

\* C12: a step in which addDiscoveredDevice changes the discovered set
\* (new id, .local name replaced by an address, info backfill) delivers the
\* full new set to every registered listener, in that same step.
C12_ChangeIsPublished ==
    [][(lastAdd' # None /\ discoveredDevices' # discoveredDevices)
       => published' = FullPublication(discoveredDevices')]_vars

C12_Witness ==
    /\ lastAdd # None
    /\ lastAdd[1].existing # None
    /\ EndsWithLocal(lastAdd[1].existing[1].host)
    /\ discoveredDevices[lastAdd[1].device.id].host = Addr50
    /\ Len(discoveryListeners) = 2
    /\ published = FullPublication(discoveredDevices)

C14_ThrowingListenerContained ==
    [][/\ (completed' # None /\ completed'[1].ok /\ completed'[1].req.kind \in {"get", "post"})
          => notified' = stateListeners
       /\ (completed' # None /\ completed'[1].ok /\ completed'[1].req.kind = "post")
          => settled' = Some(Settled(completed'[1].req.call, "resolved"))
       /\ (completed' # None /\ completed'[1].ok /\ completed'[1].req.kind = "presets")
          => /\ presetNotified' = presetListeners
             /\ settled' = Some(Settled(GetPresets, "resolved"))
       /\ discoveredDevices' # discoveredDevices
          => published' = FullPublication(discoveredDevices')]_vars

C14_Witness ==
    /\ stateListeners = <<"Bad", "L1">>
    /\ notified = <<"Bad", "L1">>
    /\ completed # None /\ completed[1].req.kind = "post"
    /\ settled # None /\ settled[1].outcome = "resolved"
    /\ state.on

\* The two ways into the discovered set side by side: candidates of the
\* scanners through the queue, and addDeviceByHost, answered by a WLED
\* device, by something else, or not at all.
DirectAnswers == {d \in Answers : d.mac # Some(MacC)}
DirectNext ==
    \/ serviceUp(HostDesk, 80)
    \/ udpMessage(Addr50)
    \/ \E i \in 1..Len(loops), data \in DirectAnswers : ProbeCompletes(i, data)
    \/ \E i \in 1..Len(loops) : DelayElapses(i)
    \/ \E h \in DirectHosts : addDeviceByHost(h, 80)
    \/ \E i \in 1..Len(direct), data \in DirectAnswers : DirectCompletes(i, data)
    \/ \E l \in DiscoveryListenerIds : Registered < MaxRegistered /\ addDiscoveryListener(l)

DirectSpec == DiscoveryInit /\ [][DirectNext]_vars

\* Discovery started and stopped at will, with no five-minute round in
\* between: two 60 s windows overlap only when discovery is stopped and
\* started again inside the first.
RestartNext ==
    \/ startDiscovery
    \/ stopDiscovery
    \/ MdnsWindowExpires
    \/ UdpWindowExpires
    \/ serviceUp(HostDesk, 80)
    \/ udpMessage(Addr50)
    \/ \E i \in 1..Len(loops), data \in DirectAnswers : ProbeCompletes(i, data)
    \/ \E i \in 1..Len(loops) : DelayElapses(i)

RestartSpec == RegistryInit /\ [][RestartNext]_vars

\* C36: while the window of a later scan run is still pending, the expiry
\* of an earlier run's window (the timeouts fire in the order they were
\* set) leaves the browser and the socket as they are.
C36_ExpiryOfOwnRunOnly ==
    [][/\ (MdnsWindowExpires /\ mdnsWindows > 1) => mdnsBrowser' = mdnsBrowser
       /\ (UdpWindowExpires /\ udpWindows > 1) => udpSocket' = udpSocket]_vars

\* C39: a step that changes the discovered set on an answer, the answer to
\* a probe of the queue or to addDeviceByHost, does so on an answer that
\* carries a firmware version and a device name or the WLED brand.
C39_OnlyWledIdentitiesAdded ==
    [][\A data \in DirectAnswers :
          (/\ \/ \E i \in 1..Len(loops) : ProbeCompletes(i, data)
              \/ \E i \in 1..Len(direct) : DirectCompletes(i, data)
           /\ discoveredDevices' # discoveredDevices)
          => IsWLED(data)]_vars

\* C38: from stopDiscovery() until the next startDiscovery(), no step
\* changes the discovered set and no step puts a candidate into its probe.
C38_QuietAfterStop ==
    [][(~isDiscovering /\ ~isDiscovering')
       => /\ discoveredDevices' = discoveredDevices
          /\ \A i \in 1..Len(loops') :
                loops'[i].pc = "probing" => (i <= Len(loops) /\ loops[i] = loops'[i])]_vars

\* What the queue's probe, checkIfWLED(host, port, 'direct'), does to the
\* discovered set and its listeners on the answer data.
AsQueueConfirmed(item, data) ==
    LET device == DeviceOf(data, item.host, item.port, "direct")
        added == AddAndNotify(device)
    IN IF IsWLED(data)
       THEN discoveredDevices' = added.devices /\ published' = added.deliveries
       ELSE UNCHANGED discoveredDevices /\ published' = <<>>

\* C28: when the probe of addDeviceByHost(host, port) is answered, the
\* discovered set changes, and is republished, exactly as it would for a
\* queue candidate with that host, port and answer, tagged "direct".
C28_DirectMergesAsQueue ==
    [][\A i \in 1..Len(direct), data \in DirectAnswers :
          (data.ok /\ DirectCompletes(i, data)) => AsQueueConfirmed(direct[i], data)]_vars

\* C29: there is never more than one rediscovery interval set, one browser
\* browsing and one broadcast socket open; startDiscovery() while discovery
\* is running sets, starts and opens nothing; and right after
\* stopDiscovery() no interval is set, no browser is browsing and no socket
\* is open.
C29_OneOfEachScanner ==
    /\ [](timers <= 1 /\ browsers <= 1 /\ sockets <= 1)
    /\ [][(isDiscovering /\ startDiscovery)
            => UNCHANGED <<timers, browsers, sockets, mdnsWindows, udpWindows>>]_vars
    /\ [][stopDiscovery => (timers' = 0 /\ browsers' = 0 /\ sockets' = 0)]_vars

\* Discovery was stopped after two rounds whose 60 s timeouts are pending.
C29_Witness ==
    /\ ~isDiscovering
    /\ mdnsWindows >= 2 /\ udpWindows >= 2
    /\ timers = 0 /\ browsers = 0 /\ sockets = 0

----------------------------------------------------------------------------
(* ColorMath and the brightness units, each conversion called on its own:  *)
(* the arguments are drawn at the start and one step returns the result.   *)

\* Channel values: the ends of the range, their neighbours and values
\* whose saturation quotient is small or halfway.
Channels == {0, 1, 2, 64, 127, 128, 199, 200, 253, 254, 255}
Hues == 0..359
Percents == 0..100
Natives == 0..255
Requested == (0 - MaxExcess)..(100 + MaxExcess)
SegmentIndexes == {0, 1}

Conversion(fn, a, b, c) == [fn |-> fn, a |-> a, b |-> b, c |-> c]

MathInputs ==
    {Conversion("rgbToHsv", r, g, b) : r \in Channels, g \in Channels, b \in Channels}
    \cup {Conversion("hsvToRgb", h, sat, 100) : h \in Hues, sat \in Percents}
    \cup {Conversion("toPublic", x, 0, 0) : x \in Natives}
    \cup {Conversion("toNative", x, 0, 0) : x \in Percents}
    \cup {Conversion("setBrightness", x, 0, 0) : x \in Requested}
    \cup {Conversion("setSegmentBrightness", i, x, 0) : i \in SegmentIndexes, x \in Requested}

Returns(fn, value) ==
    /\ arguments.fn = fn
    /\ returned = None
    /\ returned' = Some(value)
    /\ UNCHANGED <<arguments, sessionVars, discoveryVars>>

\* rgbToHsv(r, g, b)
ConvertRgb ==
    \E hsv \in rgbToHsvResults(arguments.a, arguments.b, arguments.c) :
        Returns("rgbToHsv", hsv)

\* setHSV(h, s, v): hsvToRgb, then setColor's rgbToHsv of that triple.
ConvertHsvAndBack ==
    \E rgb \in hsvToRgbResults(arguments.a, arguments.b, arguments.c) :
        \E hsv \in rgbToHsvResults(rgb.r, rgb.g, rgb.b) :
            Returns("hsvToRgb", [rgb |-> rgb, hsv |-> hsv])

\* A native brightness mirrored by updateStateFromData and sent back by
\* setBrightness.
NativeRoundTrip ==
    Returns("toPublic", toNative(toPublic(arguments.a)))

\* A public brightness sent by setBrightness and mirrored from the
\* device's answer.
PublicRoundTrip ==
    Returns("toNative", toPublic(toNative(arguments.a)))

\* setBrightness(brightness): the payload it transmits.
TransmitBrightness ==
    Returns("setBrightness", Patch(Call("setBrightness", FALSE, arguments.a, Black)))

\* setSegmentBrightness(segmentIndex, brightness): the payload it transmits.
TransmitSegmentBrightness ==
    Returns("setSegmentBrightness", SegmentBrightnessPatch(arguments.a, arguments.b))

MathInit ==
    /\ arguments \in MathInputs
    /\ returned = None
    /\ SessionAside
    /\ DiscoveryIdle

MathNext ==
    \/ ConvertRgb
    \/ ConvertHsvAndBack
    \/ NativeRoundTrip
    \/ PublicRoundTrip
    \/ TransmitBrightness
    \/ TransmitSegmentBrightness

MathSpec == MathInit /\ [][MathNext]_vars

Abs(n) == IF n < 0 THEN 0 - n ELSE n

\* C17: for every (r, g, b) in 0..255, rgbToHsv returns saturation 0
\* exactly when r = g = b, and a hue h with 0 <= h < 360.
C17_GreyIffUnsaturated ==
    (arguments.fn = "rgbToHsv" /\ returned # None)
    => /\ returned[1].s = 0 <=> (arguments.a = arguments.b /\ arguments.b = arguments.c)
       /\ 0 <= returned[1].h /\ returned[1].h < 360

\* C18: for every hue h in 0..359 and saturation s in 1..100, rgbToHsv of
\* hsvToRgb(h, s, 100) returns a hue within 1 of h and a saturation within
\* 1 of s.
C18_HsvRoundTrip ==
    (arguments.fn = "hsvToRgb" /\ arguments.b >= 1 /\ returned # None)
    => /\ Abs(returned[1].hsv.h - arguments.a) <= 1
       /\ Abs(returned[1].hsv.s - arguments.b) <= 1

\* C19: a native brightness 0..255 converted to the public unit and back,
\* and a public brightness 0..100 converted to the native unit and back,
\* each come back within 1 of where they started.
C19_BrightnessRoundTrip ==
    (arguments.fn \in {"toPublic", "toNative"} /\ returned # None)
    => Abs(returned[1] - arguments.a) <= 1

C19_Witness ==
    /\ arguments.fn = "toPublic"
    /\ returned # None
    /\ Abs(returned[1] - arguments.a) = 1

\* C20: whatever public brightness is requested, below 0 and above 100
\* included, the native brightness in the payload of setBrightness and of
\* setSegmentBrightness lies in 0..255.
C20_TransmittedBrightnessInRange ==
    /\ (arguments.fn = "setBrightness" /\ returned # None)
       => returned[1].bri # None /\ returned[1].bri[1] \in Natives
    /\ (arguments.fn = "setSegmentBrightness" /\ returned # None)
       => returned[1].seg.bri \in Natives

C20_Witness ==
    /\ arguments.fn = "setSegmentBrightness"
    /\ arguments.b > 100
    /\ returned # None
    /\ returned[1].seg.bri = 255

----------------------------------------------------------------------------
(* The notifier loops, called on their own with listeners whose callbacks  *)
(* call remove*Listener: on themselves (a one-shot listener) or on another *)
(* listener.  notifyListeners and notifyPresetListeners of the session and *)
(* notifyListeners of the discovery service are the same loop, and the     *)
(* three remove*Listener the same splice.                                  *)

ReentrantIds == {"A", "B", "C"}

\* The arrays of distinct listeners.
ListenerArrays ==
    {ls \in UNION {[1..n -> ReentrantIds] : n \in 0..Cardinality(ReentrantIds)} :
        \A j, k \in 1..Len(ls) : ls[j] = ls[k] => j = k}

\* For each listener, the listener its callback removes, if any.
Removals == [ReentrantIds -> {None} \cup {Some(l) : l \in ReentrantIds}]

Notification(listeners, removes) ==
    [fn |-> "notifyListeners", listeners |-> listeners, removes |-> removes]

\* index = listeners.indexOf(listener); if (index >= 0) listeners.splice(index, 1)
Spliced(listeners, l) ==
    IF \E k \in 1..Len(listeners) : listeners[k] = l
    THEN LET index == CHOOSE k \in 1..Len(listeners) :
                        listeners[k] = l /\ \A j \in 1..(k - 1) : listeners[j] # l
         IN SubSeq(listeners, 1, index - 1) \o SubSeq(listeners, index + 1, Len(listeners))
    ELSE listeners

\* for (const listener of this.stateListeners) { try { listener(...) } ... }
\* from position i on: the iterator reads the array itself at each turn,
\* and the callback's removal has spliced it by then.  The listeners
\* called, and the array at the end.
RECURSIVE notifyListenersLive(_, _, _, _)
notifyListenersLive(listeners, removes, i, invoked) ==
    IF i > Len(listeners)
    THEN [invoked |-> invoked, listeners |-> listeners]
    ELSE LET listener == listeners[i]
             after == IF removes[listener] = None
                      THEN listeners
                      ELSE Spliced(listeners, removes[listener][1])
         IN notifyListenersLive(after, removes, i + 1, Append(invoked, listener))

\* A notification runs from its first listener to the end of the loop.
NotifyReturns ==
    Returns("notifyListeners",
            notifyListenersLive(arguments.listeners, arguments.removes, 1, <<>>))

ReentrantInit ==
    /\ arguments \in {Notification(ls, rm) : ls \in ListenerArrays, rm \in Removals}
    /\ returned = None
    /\ SessionAside
    /\ DiscoveryIdle

ReentrantNext == NotifyReturns

ReentrantSpec == ReentrantInit /\ [][ReentrantNext]_vars

Occurrences(seq, x) == Cardinality({k \in 1..Len(seq) : seq[k] = x})

\* C40: when a notification has run, every listener that was registered
\* at its start and is still registered at its end was called exactly
\* once by it.
C40_RemainingListenersCalledOnce ==
    (arguments.fn = "notifyListeners" /\ returned # None)
    => \A l \in ReentrantIds :
         (Occurrences(arguments.listeners, l) = 1 /\ Occurrences(returned[1].listeners, l) = 1)
         => Occurrences(returned[1].invoked, l) = 1

====
